---- MODULE Spec2Model ----
(***************************************************************************)
(* Conversation orchestration and order aggregation of the order chatbot.  *)
(*                                                                         *)
(* The repository holds three builds of the message handling:              *)
(*   "core"     src/src/core/orchestrator.py   (wired into src/src/main.py)*)
(*   "orches_2" src/orches_2.py                (adds language and handoff) *)
(*   "agent"    src/src/agents/order_agent.py  (OrderAgent.handle)         *)
(* All three work on the aggregate of src/src/models/order_state.py through*)
(* src/src/core/conversation_manager.py.                                   *)
(*                                                                         *)
(* The handlers of the three builds read the extracted entities as flat    *)
(* fields (e.product_name, e.quantity, e.unit, e.delivery_date) and read   *)
(* and assign an order-level order_state.delivery_date.  The pydantic      *)
(* classes of this snapshot (ExtractedEntities, OrderState) declare the    *)
(* per-line form only; run against them, every such access raises.  The    *)
(* model follows the handlers: the aggregate and the entities carry the    *)
(* attributes the handlers use, next to the per-line fields of the data    *)
(* model, and OrderState.from_dict moves a stored order-level              *)
(* delivery_date to line 0 as its back-compat block does.                  *)
(***************************************************************************)
EXTENDS Integers, Sequences, FiniteSets, TLC

VARIABLES
    build,                        \* which of the three builds is running
    started,                      \* start_conversation has run
    today,                        \* today's date in the business timezone (a day number)
    cache,                        \* cache_store entry order_state:<conversation>
    row,                          \* the Conversation row of the durable store
    orders,                       \* the Order table, in insertion order
    awaiting_resume_response,     \* Orchestrator flag
    awaiting_order_confirmation,  \* Orchestrator flag / OrderAgent._last_confirmation_flag
    awaiting_human_handoff,       \* Orchestrator flag (orches_2)
    current_language,             \* Orchestrator.current_language (orches_2)
    parked,                       \* the conversation of the other phone number
    handling,                     \* the calls of handle_message in progress at once
    last                          \* what the last handled message was and how it was answered

vars == <<build, started, today, cache, row, orders, awaiting_resume_response,
          awaiting_order_confirmation, awaiting_human_handoff, current_language, parked,
          handling, last>>

-----------------------------------------------------------------------------
(* Values *)

\* Python None of a string field
NULL == "null"
\* a quantity that is None (or 0: every test the handlers make on it is a truth test)
NoQty == 0
\* a delivery date that is None
NoDate == 0
\* line_index None of an order-level missing_fields entry; a dict without the
\* active_line_index key
NoLine == -1
\* an absent cache entry, an empty order_state column ({})
NoState == [empty |-> TRUE]

\* datetime.weekday() of a Sunday
Sunday == 6
DaysPerWeek == 7

weekday(d) == d % DaysPerWeek

-----------------------------------------------------------------------------
(* Bounds of the model *)

\* the main specification runs on this day (a Friday: FixedToday % 7 = 4)
FixedToday == 11
\* delivery dates of the main specification range over today-DatesBefore .. today+DatesAfter
DatesBefore == 1
DatesAfter == 1
\* the date validator is checked for today in FirstToday .. FirstToday+TodaySpan-1
\* and dates up to DateSpan days before and after today
FirstToday == 10
TodaySpan == 7
DateSpan == 8
\* at most this many Order records are stored
MaxOrders == 1
\* the order ids are checked over MaxSaved saves spread over IdDays changes of day
MaxSaved == 4
IdDays == 2

-----------------------------------------------------------------------------
(* The aggregate: src/src/models/order_state.py *)

OrderLine ==
    [partnum |-> NULL, product_name |-> NULL, quantity |-> NoQty,
     unit |-> NULL, delivery_date |-> NoDate]

\* OrderState(): the defaults of the class, one empty line, no missing_fields
OrderState ==
    [customer_name |-> NULL, customer_company |-> NULL, delivery_date |-> NoDate,
     order_lines |-> <<OrderLine>>, is_complete |-> FALSE, missing_fields |-> <<>>,
     order_status |-> "new"]

LineFields == <<"product_name", "quantity", "unit", "delivery_date">>

\* `not line.<field>`
line_field_missing(line, f) ==
    CASE f = "product_name"  -> line.product_name = NULL
      [] f = "quantity"      -> line.quantity = NoQty
      [] f = "unit"          -> line.unit = NULL
      [] f = "delivery_date" -> line.delivery_date = NoDate

\* the entries one line contributes, in the order the loop appends them
line_missing(idx, line) ==
    LET fs == SelectSeq(LineFields, LAMBDA f : line_field_missing(line, f))
    IN  [i \in 1..Len(fs) |-> [line_index |-> idx, field |-> fs[i]]]

RECURSIVE lines_missing(_, _)
lines_missing(lines, idx) ==
    IF idx >= Len(lines) THEN <<>>
    ELSE line_missing(idx, lines[idx + 1]) \o lines_missing(lines, idx + 1)

order_level_missing(os) ==
    (IF os.customer_name = NULL
        THEN <<[line_index |-> NoLine, field |-> "customer_name"]>> ELSE <<>>)
    \o (IF os.customer_company = NULL
        THEN <<[line_index |-> NoLine, field |-> "customer_company"]>> ELSE <<>>)

has_partial_data(os) ==
    \/ os.customer_name # NULL
    \/ os.customer_company # NULL
    \/ \E i \in 1..Len(os.order_lines) :
          \E f \in {"product_name", "quantity", "unit", "delivery_date"} :
             ~line_field_missing(os.order_lines[i], f)

\* the line_index of the first entry of missing_fields, order-level entries
\* counted as line 0
line_index_of_first_entry(os) ==
    IF Len(os.missing_fields) = 0 THEN 0
    ELSE IF os.missing_fields[1].line_index = NoLine THEN 0
    ELSE os.missing_fields[1].line_index

\* OrderState.active_line_index
active_line_index(os) ==
    LET lineLevel == SelectSeq(os.missing_fields, LAMBDA m : m.line_index # NoLine)
    IN  IF Len(lineLevel) > 0 THEN lineLevel[1].line_index ELSE 0

\* a status that leaves new only when the order is complete
status_of_complete_only(os, complete) ==
    IF complete /\ Len(os.order_lines) > 0 /\ os.order_status \in {"new", "in_progress"}
    THEN "in_progress"
    ELSE IF has_partial_data(os) THEN os.order_status
    ELSE "new"

\* the status an aggregate gets from update_missing_fields
next_order_status(os, complete) ==
    IF complete /\ Len(os.order_lines) > 0
    THEN (IF os.order_status \in {"new", "in_progress"} THEN "in_progress" ELSE os.order_status)
    ELSE IF has_partial_data(os)
         THEN (IF os.order_status = "new" THEN "in_progress" ELSE os.order_status)
         ELSE "new"

\* the value is_complete gets from the recomputed list
complete_of(missing) == Len(missing) = 0

\* OrderState.update_missing_fields: the aggregate after the call
update_missing_fields(os) ==
    LET missing == order_level_missing(os) \o lines_missing(os.order_lines, 0)
        complete == complete_of(missing)
    IN  [os EXCEPT !.missing_fields = missing,
                   !.is_complete = complete,
                   !.order_status = next_order_status(os, complete)]

\* OrderState.to_dict: model_dump() plus the derived active_line_index
to_dict(os) == os @@ [active_line_index |-> active_line_index(os)]

\* what from_dict leaves of the dict it is given (it pops delivery_date and
\* active_line_index from the caller's dict and fills line 0 in place)
popped_dict(d) ==
    LET push == /\ d.delivery_date # NoDate
                /\ Len(d.order_lines) > 0
                /\ d.order_lines[1].delivery_date = NoDate
        lines == IF push
                 THEN [d.order_lines EXCEPT ![1].delivery_date = d.delivery_date]
                 ELSE d.order_lines
    IN  [d EXCEPT !.order_lines = lines, !.delivery_date = NoDate,
                  !.active_line_index = NoLine]

\* OrderState.from_dict: the aggregate built from a stored dict
from_dict(d) ==
    LET p == popped_dict(d)
    IN  [customer_name |-> p.customer_name, customer_company |-> p.customer_company,
         delivery_date |-> NoDate, order_lines |-> p.order_lines,
         is_complete |-> p.is_complete, missing_fields |-> p.missing_fields,
         order_status |-> p.order_status]

-----------------------------------------------------------------------------
(* The stores: src/src/services/cache_service.py, the Conversation and Order  *)
(* tables of src/src/database/sql_schema.py.  A store value st is the record  *)
(* [cache, row, orders]; every ConversationManager method maps store to store.*)

\* a Conversation row as get_or_create_conversation creates it
new_conversation == [exists |-> TRUE, order_state |-> NoState, order_status |-> "new"]

no_conversation == [exists |-> FALSE, order_state |-> NoState, order_status |-> "new"]

\* ConversationManager.get_or_create_conversation: the store after the call and
\* the order_status it returns
get_or_create_conversation(st) ==
    IF st.row.exists /\ st.row.order_status = "in_progress"
    THEN [st |-> [st EXCEPT !.cache = IF st.row.order_state # NoState
                                      THEN st.row.order_state ELSE @],
          order_status |-> "in_progress"]
    ELSE IF st.row.exists
    THEN [st |-> [st EXCEPT !.cache = IF @ = NoState /\ st.row.order_state # NoState
                                      THEN st.row.order_state ELSE @],
          order_status |-> st.row.order_status]
    ELSE [st |-> [st EXCEPT !.row = new_conversation, !.cache = to_dict(OrderState)],
          order_status |-> "new"]

\* ConversationManager.get_order_state: the aggregate read and the store after
\* the read (from_dict pops keys of the cached dict; a miss fills the cache)
get_order_state(st) ==
    IF st.cache # NoState
    THEN [os |-> from_dict(st.cache), st |-> [st EXCEPT !.cache = popped_dict(@)]]
    ELSE IF st.row.exists /\ st.row.order_state # NoState
    THEN [os |-> from_dict(st.row.order_state),
          st |-> [st EXCEPT !.cache = to_dict(from_dict(st.row.order_state))]]
    ELSE [os |-> OrderState, st |-> st]

\* an update_order_state that keeps what the cache holds and the aggregate
\* to write leaves empty
update_order_state_merging(st, os) ==
    LET held == IF st.cache # NoState THEN get_order_state(st).os ELSE os
        line(i) == IF i <= Len(held.order_lines)
                   THEN [f \in DOMAIN OrderLine |->
                            IF os.order_lines[i][f] = OrderLine[f]
                            THEN held.order_lines[i][f] ELSE os.order_lines[i][f]]
                   ELSE os.order_lines[i]
        merged == [os EXCEPT
                     !.customer_name = IF @ = NULL THEN held.customer_name ELSE @,
                     !.customer_company = IF @ = NULL THEN held.customer_company ELSE @,
                     !.delivery_date = IF @ = NoDate THEN held.delivery_date ELSE @,
                     !.order_lines = [i \in 1..Len(os.order_lines) |-> line(i)]]
        d == to_dict(update_missing_fields(merged))
    IN  [st EXCEPT !.cache = d,
                   !.row = IF st.row.exists
                           THEN [@ EXCEPT !.order_state = d,
                                          !.order_status = d.order_status]
                           ELSE @]

\* ConversationManager.update_order_state: recompute, then write cache and row
update_order_state(st, os) ==
    LET os2 == update_missing_fields(os)
        d   == to_dict(os2)
    IN  [st EXCEPT !.cache = d,
                   !.row = IF st.row.exists
                           THEN [@ EXCEPT !.order_state = d, !.order_status = os2.order_status]
                           ELSE @]

\* update_order_state when the commit raises: the cache entry is written
\* before the row is touched, the row keeps what it held
update_order_state_commit_raises(st, os) ==
    [st EXCEPT !.cache = to_dict(update_missing_fields(os))]

\* ConversationManager.mark_order_completed
mark_order_completed(st) ==
    IF st.row.exists
    THEN [st EXCEPT
            !.row = [@ EXCEPT
                       !.order_state =
                           IF @ # NoState
                           THEN to_dict([from_dict(@) EXCEPT !.order_status = "completed"])
                           ELSE @,
                       !.order_status = "completed"],
            !.cache = NoState]
    ELSE st

\* a reset that clears the row and leaves the cache entry
reset_row_only(st) ==
    IF st.row.exists
    THEN [st EXCEPT !.row = [@ EXCEPT !.order_state = to_dict(OrderState),
                                      !.order_status = "new"]]
    ELSE st

\* ConversationManager.reset_order_state
reset_order_state(st) ==
    IF st.row.exists
    THEN [st EXCEPT !.row = [@ EXCEPT !.order_state = to_dict(OrderState),
                                      !.order_status = "new"],
                    !.cache = to_dict(OrderState)]
    ELSE st

RECURSIVE reversed(_)
reversed(s) == IF s = <<>> THEN <<>> ELSE reversed(Tail(s)) \o <<Head(s)>>

\* ConversationManager.get_previous_orders: confirmed orders, newest first
get_previous_orders(st) ==
    LET confirmed == SelectSeq(st.orders, LAMBDA o : o.status = "confirmed")
    IN  reversed([i \in 1..Len(confirmed) |->
                    [customer_name |-> confirmed[i].customer_name,
                     customer_company |-> confirmed[i].customer_company]])

\* the placeholder id of a failed save
TEMP(day) == [date |-> day, seq |-> 0]

\* a save that numbers the order after all the records of the table
save_counting_all(st, os, day, fails) ==
    LET order_id == [date |-> day, seq |-> Len(st.orders) + 1]
        new_order == [order_id |-> order_id, customer_name |-> os.customer_name,
                      customer_company |-> os.customer_company,
                      delivery_date |-> os.delivery_date, status |-> "confirmed",
                      items |-> [i \in 1..Len(os.order_lines) |->
                                    [partnum |-> os.order_lines[i].partnum,
                                     product_name |-> os.order_lines[i].product_name,
                                     quantity |-> os.order_lines[i].quantity,
                                     unit |-> os.order_lines[i].unit]]]
    IN  IF fails THEN [st |-> st, order_id |-> TEMP(day)]
        ELSE [st |-> [st EXCEPT !.orders = Append(@, new_order)], order_id |-> order_id]

\* a save whose failure is not rolled back: the record stays, under the
\* placeholder id
save_without_rollback(st, os, day, fails) ==
    LET today_count == Len(SelectSeq(st.orders, LAMBDA o : o.order_id.date = day))
        order_id == IF fails THEN TEMP(day) ELSE [date |-> day, seq |-> today_count + 1]
        new_order == [order_id |-> order_id, customer_name |-> os.customer_name,
                      customer_company |-> os.customer_company,
                      delivery_date |-> os.delivery_date, status |-> "confirmed",
                      items |-> [i \in 1..Len(os.order_lines) |->
                                    [partnum |-> os.order_lines[i].partnum,
                                     product_name |-> os.order_lines[i].product_name,
                                     quantity |-> os.order_lines[i].quantity,
                                     unit |-> os.order_lines[i].unit]]]
    IN  [st |-> [st EXCEPT !.orders = Append(@, new_order)], order_id |-> order_id]

\* _save_order_to_database: the id is ORD-<date>-<count of that date's ids + 1>;
\* a failing store is rolled back and answers the placeholder id
save_order_to_database(st, os, day, fails) ==
    LET today_count == Len(SelectSeq(st.orders, LAMBDA o : o.order_id.date = day))
        order_id == [date |-> day, seq |-> today_count + 1]
        items == [i \in 1..Len(os.order_lines) |->
                    [partnum |-> os.order_lines[i].partnum,
                     product_name |-> os.order_lines[i].product_name,
                     quantity |-> os.order_lines[i].quantity,
                     unit |-> os.order_lines[i].unit]]
        new_order == [order_id |-> order_id, customer_name |-> os.customer_name,
                      customer_company |-> os.customer_company,
                      delivery_date |-> os.delivery_date, status |-> "confirmed",
                      items |-> items]
    IN  IF fails THEN [st |-> st, order_id |-> TEMP(day)]
        ELSE [st |-> [st EXCEPT !.orders = Append(@, new_order)], order_id |-> order_id]

-----------------------------------------------------------------------------
(* Date validation: _validate_delivery_date (the same rule in the three builds) *)

\* a delivery_date string that strptime("%Y-%m-%d") rejects
BadFormat == -2

no_error == [error |-> "none", time_desc |-> "", days_ago |-> 0, date |-> NoDate]

\* the wording of a past date
time_desc_of(days_ago) ==
    IF days_ago = 1 THEN "kemarin"
    ELSE IF days_ago = 2 THEN "kemarin lusa"
    ELSE "hari yang lalu"

\* a validator that takes today for a past date
validate_rejecting_today(d, t) ==
    IF d = BadFormat
    THEN [error |-> "format", time_desc |-> "", days_ago |-> 0, date |-> NoDate]
    ELSE IF d <= t
    THEN [error |-> "past", time_desc |-> time_desc_of(t - d), days_ago |-> t - d,
          date |-> d]
    ELSE IF weekday(d) = Sunday
    THEN [error |-> "sunday", time_desc |-> "", days_ago |-> 0, date |-> d]
    ELSE no_error

\* _validate_delivery_date: no_error, or the error message (its kind and the
\* values it prints)
validate_delivery_date(d, t) ==
    IF d = BadFormat
    THEN [error |-> "format", time_desc |-> "", days_ago |-> 0, date |-> NoDate]
    ELSE IF d < t
    THEN [error |-> "past", time_desc |-> time_desc_of(t - d), days_ago |-> t - d,
          date |-> d]
    ELSE IF weekday(d) = Sunday
    THEN [error |-> "sunday", time_desc |-> "", days_ago |-> 0, date |-> d]
    ELSE no_error

-----------------------------------------------------------------------------
(* Product resolution: semantic_search_service, an external collaborator.      *)
(* One product text has a catalog match, the other has none.                   *)

catalog_entry == [partnum |-> "OX-6M3", description |-> "OXYGEN 6M3", uom |-> "M3"]

\* search_part_by_description followed by fuzzy_search_by_description on a miss
search_matches(query) ==
    IF query = "oksigen" THEN <<catalog_entry>> ELSE <<>>

-----------------------------------------------------------------------------
(* User messages.  A message is the sequence of its words; the keyword tests   *)
(* of the handlers are made on user_message.lower().strip().                   *)

\* str.lower() on the words of the corpus
lower(w) ==
    CASE w = "Ya" -> "ya"
      [] w = "Batal" -> "batal"
      [] OTHER -> w

lower_strip(msg) == [i \in 1..Len(msg) |-> lower(msg[i])]

\* the one-word keywords that occur inside a word, as substrings
inside(kw, w) ==
    \/ kw = w
    \/ w = "saya" /\ kw = "ya"
    \/ w = "oke" /\ kw = "ok"
    \/ w = "iya" /\ kw = "ya"
    \/ w = "besok" /\ kw = "ok"
    \/ w = "oksigen" /\ kw = "ok"

\* `kw in user_input` for a keyword given as the sequence of its words
contains(user_input, kw) ==
    \E i \in 1..(Len(user_input) - Len(kw) + 1) :
        \A j \in 1..Len(kw) :
            IF Len(kw) = 1 THEN inside(kw[j], user_input[i + j - 1])
            ELSE kw[j] = user_input[i + j - 1]

\* user_input == w or user_input.startswith(w + " ") or user_input.endswith(" " + w)
boundary_match(user_input, w) ==
    /\ Len(user_input) > 0
    /\ \/ user_input = <<w>>
       \/ Len(user_input) > 1 /\ user_input[1] = w
       \/ Len(user_input) > 1 /\ user_input[Len(user_input)] = w

confirmation_words == {"ya", "konfirmasi", "yes", "ok", "oke", "benar", "betul"}
cancel_words == {<<"batal">>, <<"cancel">>, <<"stop">>, <<"gak", "jadi">>, <<"tidak", "jadi">>}
edit_words_core == {<<"ubah">>, <<"edit">>, <<"ganti">>, <<"salah">>}
edit_words == edit_words_core \cup {<<"change">>, <<"modify">>}
continue_words == {<<"ya">>, <<"lanjut">>, <<"iya">>, <<"yes">>, <<"continue">>, <<"ok">>, <<"oke">>}
restart_words == {<<"baru">>, <<"mulai", "baru">>, <<"gak">>, <<"tidak">>, <<"no">>, <<"cancel">>}

is_confirm(user_input) == \E w \in confirmation_words : boundary_match(user_input, w)
is_cancel(user_input)  == \E w \in cancel_words : contains(user_input, w)
is_edit(user_input, b) ==
    \E w \in (IF b = "core" THEN edit_words_core ELSE edit_words) : contains(user_input, w)
is_continue(user_input) == \E w \in continue_words : contains(user_input, w)
is_restart(user_input)  == \E w \in restart_words : contains(user_input, w)

\* the keyword replies a user sends in the model
KeywordReplies ==
    { <<"Ya">>,
      <<"ubah", "tanggal", "jadi", "besok", "ya">>,
      <<"ubah", "tanggal">>,
      <<"Batal">>,
      <<"batal", "ya">>,
      <<"mulai", "baru">> }

\* the messages that carry order data
OrderMessages == { <<"saya", "pesan", "oksigen">> }

Messages == KeywordReplies \cup OrderMessages

-----------------------------------------------------------------------------
(* Language detection: LanguageDetector.detect                                 *)

ENGLISH_INDICATORS == {"please", "order", "want", "need"}
INDONESIAN_INDICATORS == {"saya", "pesan", "tanggal", "tidak"}

indicator_count(words, indicators) ==
    Cardinality({i \in 1..Len(words) : words[i] \in indicators})

\* the English sentence patterns tried when no indicator word occurs
english_patterns ==
    {<<"i", "want">>, <<"i", "need">>, <<"can", "i">>, <<"could", "you">>, <<"please">>,
     <<"thank", "you">>}

detect(msg) ==
    LET words == lower_strip(msg)
        english_count == indicator_count(words, ENGLISH_INDICATORS)
        indonesian_count == indicator_count(words, INDONESIAN_INDICATORS)
    IN  IF english_count > indonesian_count THEN "en"
        ELSE IF indonesian_count > 0 THEN "id"
        ELSE IF \E pattern \in english_patterns : contains(words, pattern) THEN "en"
        ELSE "id"

\* the explicit switch instructions of handle_message
english_switch_phrases ==
    {<<"speak", "english">>, <<"talk", "in", "english">>, <<"use", "english">>,
     <<"english", "please">>, <<"can", "we", "just", "talk", "in", "english">>}
indonesian_switch_phrases ==
    {<<"bahasa", "indonesia">>, <<"pakai", "bahasa", "indonesia">>,
     <<"bicara", "bahasa", "indonesia">>}

switch_to_english(msg) == \E p \in english_switch_phrases : contains(lower_strip(msg), p)
switch_to_indonesian(msg) ==
    \E p \in indonesian_switch_phrases : contains(lower_strip(msg), p)

\* a language block that follows the detection of every message
detected_language_unlocked(lang, msg) == detect(msg)

\* handle_message, language detection block of orches_2
detected_language(lang, msg) ==
    IF lang = "id" /\ detect(msg) = "en"
    THEN (IF switch_to_english(msg) THEN "en" ELSE lang)
    ELSE IF lang = "en" /\ detect(msg) = "id"
    THEN (IF switch_to_indonesian(msg) THEN "id" ELSE lang)
    ELSE detect(msg)

-----------------------------------------------------------------------------
(* The NLU result: IntentResult with the entities the handlers read            *)
(* line_index is the 0-based line the extraction refers the values to, NoLine  *)
(* when it names none.                                                         *)

ExtractedEntities ==
    [customer_name |-> NULL, customer_company |-> NULL, line_index |-> NoLine,
     product_name |-> NULL, quantity |-> NoQty, unit |-> NULL, delivery_date |-> NoDate]

\* ExtractedEntities.has_any / IntentResult.has_entities
has_any(e) ==
    \/ e.customer_name # NULL
    \/ e.customer_company # NULL
    \/ e.product_name # NULL
    \/ e.quantity # NoQty
    \/ e.unit # NULL
    \/ e.delivery_date # NoDate

\* _parse_llm_response: the label of the LLM, validated
valid_intents == {"ORDER", "CANCEL_ORDER", "FALLBACK"}
parse_intent(raw) == IF raw \in valid_intents THEN raw ELSE "UNKNOWN"

\* the labels the LLM answers with
RawIntents == {"ORDER", "CANCEL_ORDER", "FALLBACK", "HUMAN_HANDOFF", "CHIT_CHAT"}

\* the entity bundles the extraction returns, for a given current date
Entities(t) ==
    { ExtractedEntities,
      [ExtractedEntities EXCEPT !.product_name = "oksigen", !.quantity = 3],
      [ExtractedEntities EXCEPT !.product_name = "oksigen", !.quantity = 3,
                                !.unit = "tabung"],
      [ExtractedEntities EXCEPT !.line_index = 1, !.quantity = 3, !.unit = "tabung"],
      [ExtractedEntities EXCEPT !.product_name = "gas xyz", !.unit = "tabung"],
      [ExtractedEntities EXCEPT !.customer_name = "Budi", !.customer_company = "PT Maju"],
      [ExtractedEntities EXCEPT !.quantity = 3, !.unit = "tabung"],
      [ExtractedEntities EXCEPT !.delivery_date = t + DatesAfter],
      [ExtractedEntities EXCEPT !.delivery_date = t - DatesBefore],
      [ExtractedEntities EXCEPT !.customer_name = "Budi", !.delivery_date = t - DatesBefore],
      [ExtractedEntities EXCEPT !.quantity = 3, !.delivery_date = t + DatesAfter] }

\* the result of _extract_order_changes
Changes(t) ==
    {[has_changes |-> FALSE, changes |-> ExtractedEntities]}
        \cup {[has_changes |-> TRUE, changes |-> e] : e \in Entities(t)}

-----------------------------------------------------------------------------
(* Entity application                                                          *)

first_line(os) == IF Len(os.order_lines) = 0 THEN <<OrderLine>> ELSE os.order_lines

\* OrderAgent._resolve_product
resolve_product(e, os) ==
    LET matches == search_matches(e.product_name)
        lines   == first_line(os)
        line    == lines[1]
        found   == IF Len(matches) > 0
                   THEN [line EXCEPT !.partnum = matches[1].partnum,
                                     !.product_name = matches[1].description,
                                     !.unit = IF matches[1].uom # NULL
                                              THEN matches[1].uom ELSE e.unit]
                   ELSE [line EXCEPT !.product_name = e.product_name,
                                     !.unit = e.unit]
        withqty == IF e.quantity # NoQty THEN [found EXCEPT !.quantity = e.quantity]
                   ELSE found
    IN  [os EXCEPT !.order_lines = [lines EXCEPT ![1] = withqty]]

\* the product block of handle_message (step 8c of core, 9c of orches_2)
match_product(e, os) ==
    LET matches == search_matches(e.product_name)
        lines   == first_line(os)
        line    == lines[1]
        found   == IF Len(matches) > 0
                   THEN [line EXCEPT !.partnum = matches[1].partnum,
                                     !.product_name = matches[1].description,
                                     !.unit = matches[1].uom,
                                     !.quantity = IF e.quantity # NoQty
                                                  THEN e.quantity ELSE @]
                   ELSE [line EXCEPT !.product_name = e.product_name,
                                     !.quantity = IF e.quantity # NoQty
                                                  THEN e.quantity ELSE @,
                                     !.unit = IF e.unit # NULL THEN e.unit ELSE @]
    IN  [os EXCEPT !.order_lines = [lines EXCEPT ![1] = found]]

\* quantity and unit when no product was extracted: written to order_lines[0]
quantity_unit_without_product(e, os) ==
    IF e.product_name = NULL /\ Len(os.order_lines) > 0
    THEN [os EXCEPT !.order_lines[1].quantity = IF e.quantity # NoQty THEN e.quantity ELSE @,
                    !.order_lines[1].unit = IF e.unit # NULL THEN e.unit ELSE @]
    ELSE os

\* the customer fields of the entities
customer_fields(e, os) ==
    [os EXCEPT !.customer_name = IF e.customer_name # NULL THEN e.customer_name ELSE @,
               !.customer_company = IF e.customer_company # NULL
                                    THEN e.customer_company ELSE @]

\* _apply_entities, and the same block of handle_message: the aggregate as
\* left in memory and the validation error, no_error if there is none
apply_entities(b, e, os, t) ==
    LET os1 == IF e.product_name # NULL
               THEN (IF b = "agent" THEN resolve_product(e, os) ELSE match_product(e, os))
               ELSE os
        os2 == customer_fields(e, os1)
        err == IF e.delivery_date # NoDate THEN validate_delivery_date(e.delivery_date, t)
               ELSE no_error
        os3 == IF e.delivery_date # NoDate
               THEN [os2 EXCEPT !.delivery_date = e.delivery_date] ELSE os2
    IN  IF err # no_error THEN [os |-> os2, error |-> err]
        ELSE [os |-> quantity_unit_without_product(e, os3), error |-> no_error]

\* _apply_order_changes: the aggregate, whether a change was applied, and the
\* validation error
apply_order_changes(os, changes, t) ==
    LET os1  == customer_fields(changes, os)
        a1   == changes.customer_name # NULL \/ changes.customer_company # NULL
        err  == IF changes.delivery_date # NoDate
                THEN validate_delivery_date(changes.delivery_date, t) ELSE no_error
        os2  == IF changes.delivery_date # NoDate
                THEN [os1 EXCEPT !.delivery_date = changes.delivery_date] ELSE os1
        a2   == a1 \/ changes.delivery_date # NoDate
        has  == Len(os.order_lines) > 0
        m    == IF changes.product_name # NULL THEN search_matches(changes.product_name)
                ELSE <<>>
        os3  == IF has /\ Len(m) > 0
                THEN [os2 EXCEPT !.order_lines[1].product_name = m[1].description,
                                 !.order_lines[1].partnum = m[1].partnum]
                ELSE os2
        os4  == IF has /\ changes.quantity # NoQty
                THEN [os3 EXCEPT !.order_lines[1].quantity = changes.quantity] ELSE os3
        os5  == IF has /\ changes.unit # NULL
                THEN [os4 EXCEPT !.order_lines[1].unit = changes.unit] ELSE os4
        a3   == a2 \/ (has /\ (Len(m) > 0 \/ changes.quantity # NoQty \/ changes.unit # NULL))
    IN  IF err # no_error THEN [os |-> os1, applied |-> FALSE, error |-> err]
        ELSE [os |-> os5, applied |-> a3, error |-> no_error]

-----------------------------------------------------------------------------
(* The handlers.  st is the record of the stores, f the record of the session  *)
(* flags; a handler answers the stores and flags it leaves, the route taken    *)
(* and the kind of the response.                                               *)

\* no order id was issued
no_order_id == [date |-> NoDate, seq |-> NoLine]

result(st, f, route, response) ==
    [st |-> st, f |-> f, route |-> route, response |-> response,
     order_id |-> no_order_id, marked |-> NULL, save_failed |-> FALSE]

\* Orchestrator.__init__: the session flags
new_flags ==
    [awaiting_resume_response |-> FALSE, awaiting_order_confirmation |-> FALSE,
     awaiting_human_handoff |-> FALSE, current_language |-> "id"]

\* _generate_response: the confirmation prompt, with the flag set, when the
\* aggregate is complete and in progress
generate_response(os, f) ==
    IF os.order_status = "completed" THEN [f |-> f, response |-> "completed_info"]
    ELSE IF os.is_complete /\ os.order_status = "in_progress"
    THEN [f |-> [f EXCEPT !.awaiting_order_confirmation = TRUE],
          response |-> "confirmation_prompt"]
    ELSE [f |-> f, response |-> "ask_missing"]

\* save, mark completed, reset: the tail of confirm_and_complete_order and
\* the whole of OrderAgent._complete_order
complete_order(st, os, f, t, fails) ==
    LET saved  == save_order_to_database(st, os, t, fails)
        marked == mark_order_completed(saved.st)
    IN  [result(reset_order_state(marked), f, "confirmation", "order_confirmed")
            EXCEPT !.order_id = saved.order_id, !.marked = marked.row.order_status,
                   !.save_failed = fails]

\* confirm_and_complete_order of the orchestrators: the aggregate is read again
confirm_and_complete_order(st, f, t, fails) ==
    LET g == get_order_state(st)
    IN  IF ~g.os.is_complete THEN result(g.st, f, "confirmation", "incomplete")
        ELSE complete_order(g.st, g.os, f, t, fails)

\* an edit handler that ends the confirmation when the change is rejected
handle_edit_request_leaving(b, st, os, f, ch, t) ==
    LET a == apply_order_changes(os, ch.changes, t)
        off == [f EXCEPT !.awaiting_order_confirmation = FALSE]
    IN  IF ~ch.has_changes THEN result(st, f, "confirmation", "edit_prompt")
        ELSE IF a.error # no_error THEN result(st, off, "confirmation", "date_error")
        ELSE IF a.applied
        THEN result(update_order_state(st, update_missing_fields(a.os)),
                    [f EXCEPT !.awaiting_order_confirmation = TRUE],
                    "confirmation", "confirmation_prompt")
        ELSE result(st, off, "confirmation", "edit_unclear")

\* the edit branch of _handle_confirmation_response, _handle_edit_request
handle_edit_request(b, st, os, f, ch, t) ==
    LET a == apply_order_changes(os, ch.changes, t)
        keep == IF b = "agent" THEN [f EXCEPT !.awaiting_order_confirmation = TRUE] ELSE f
    IN  IF ~ch.has_changes THEN result(st, keep, "confirmation", "edit_prompt")
        ELSE IF a.error # no_error THEN result(st, keep, "confirmation", "date_error")
        ELSE IF a.applied
        THEN result(update_order_state(st, update_missing_fields(a.os)),
                    [f EXCEPT !.awaiting_order_confirmation = TRUE],
                    "confirmation", "confirmation_prompt")
        ELSE result(st, keep, "confirmation", "edit_unclear")

\* _handle_confirmation_response: confirm, then cancel, then edit, then unclear
handle_confirmation_response(b, st, os, f, msg, ch, t, fails) ==
    LET user_input == lower_strip(msg)
        off == [f EXCEPT !.awaiting_order_confirmation = FALSE]
    IN  IF is_confirm(user_input)
        THEN (IF b = "agent" THEN complete_order(st, os, off, t, fails)
              ELSE confirm_and_complete_order(st, off, t, fails))
        ELSE IF is_cancel(user_input)
        THEN result(reset_order_state(st), off, "confirmation", "order_cancelled")
        ELSE IF is_edit(user_input, b)
        THEN handle_edit_request(b, st, os, f, ch, t)
        ELSE result(st, IF b = "agent" THEN [f EXCEPT !.awaiting_order_confirmation = TRUE]
                        ELSE f,
                    "confirmation", "confirm_unclear")

\* a resume handler whose start-fresh branch keeps the stored aggregate
resume_without_replacing(b, st, f, msg) ==
    LET user_input == lower_strip(msg)
        g == get_order_state(st)
    IN  IF is_continue(user_input) THEN result(g.st, f, "resume", "ask_missing")
        ELSE IF is_restart(user_input) THEN result(st, f, "resume", "resume_restart")
        ELSE result(st, f, "resume", "resume_unclear")

\* _handle_resume_response / handle_resume_response
handle_resume_response(b, st, f, msg) ==
    LET user_input == lower_strip(msg)
        g == get_order_state(st)
        r == generate_response(g.os, f)
    IN  IF is_continue(user_input)
        THEN (IF b = "agent" THEN result(g.st, f, "resume", "ask_missing")
              ELSE result(g.st, r.f, "resume", r.response))
        ELSE IF is_restart(user_input)
        THEN result(update_order_state(st, OrderState), f, "resume", "resume_restart")
        ELSE result(st, f, "resume", "resume_unclear")

\* the CANCEL_ORDER branch: core asks for previous orders first, the other two
\* builds look at the order in progress first
handle_cancellation(b, st, os, f) ==
    LET previous == Len(get_previous_orders(st)) > 0
        active   == os.order_status = "in_progress"
    IN  IF b = "core"
        THEN (IF previous THEN result(st, f, "cancel", "escalation")
              ELSE IF active THEN result(reset_order_state(st), f, "cancel", "cancelled")
              ELSE result(st, f, "cancel", "nothing_to_cancel"))
        ELSE (IF active THEN result(reset_order_state(st), f, "cancel", "cancelled")
              ELSE IF previous THEN result(st, f, "cancel", "escalation")
              ELSE result(st, f, "cancel", "nothing_to_cancel"))

\* an auto-fill that copies the previous customer over whatever is held
autofill_overwriting(st, os) ==
    LET previous == get_previous_orders(st)
    IN  IF Len(previous) = 0 THEN os
        ELSE [os EXCEPT !.customer_name = previous[1].customer_name,
                        !.customer_company = previous[1].customer_company]

\* _maybe_autofill_customer of the agent: in memory only
maybe_autofill_customer(st, os) ==
    LET previous == get_previous_orders(st)
    IN  IF os.customer_name # NULL /\ os.customer_company # NULL THEN os
        ELSE IF os.order_status \notin {"new", "in_progress"} THEN os
        ELSE IF Len(previous) = 0 THEN os
        ELSE [os EXCEPT !.customer_name = IF @ = NULL THEN previous[1].customer_name ELSE @,
                        !.customer_company = IF @ = NULL THEN previous[1].customer_company
                                             ELSE @]

\* the pre-fill step of handle_message (8b of core, 9b of orches_2): the
\* aggregate is persisted as soon as a previous order exists
prefill_customer(st, os) ==
    LET previous == get_previous_orders(st)
        filled == [os EXCEPT !.customer_name = IF @ = NULL THEN previous[1].customer_name
                                               ELSE @,
                             !.customer_company = IF @ = NULL
                                                  THEN previous[1].customer_company ELSE @]
    IN  IF (os.order_status = "new"
              \/ (os.customer_name = NULL /\ os.customer_company = NULL))
           /\ Len(previous) > 0
        THEN [st |-> update_order_state(st, filled), os |-> update_missing_fields(filled)]
        ELSE [st |-> st, os |-> os]

\* a last step that sends the confirmation prompt for any order in progress
prompt_always(st, os, f) ==
    LET checked == update_missing_fields(os)
    IN  IF checked.order_status = "in_progress"
        THEN result(st, [f EXCEPT !.awaiting_order_confirmation = TRUE],
                    "order", "confirmation_prompt")
        ELSE result(st, f, "order", "ask_missing")

\* the confirmation prompt of the last step, or the question for what is missing
prompt_or_ask(st, os, f) ==
    LET checked == update_missing_fields(os)
    IN  IF checked.is_complete /\ checked.order_status = "in_progress"
        THEN result(st, [f EXCEPT !.awaiting_order_confirmation = TRUE],
                    "order", "confirmation_prompt")
        ELSE result(st, f, "order", "ask_missing")

\* OrderAgent.handle, on the aggregate its caller read
handle(st, f, msg, intent, e, ch, t, fails) ==
    LET g   == get_order_state(st)
        off == [f EXCEPT !.awaiting_order_confirmation = FALSE]
        a   == apply_entities("agent", e, g.os, t)
        os4 == maybe_autofill_customer(g.st,
                   IF has_any(e) THEN a.os ELSE g.os)
    IN  IF f.awaiting_order_confirmation
        THEN handle_confirmation_response("agent", g.st, g.os, f, msg, ch, t, fails)
        ELSE IF g.os.order_status = "completed" /\ intent = "ORDER"
        THEN result(g.st, off, "completed", "completed_info")
        ELSE IF intent = "CANCEL_ORDER"
        THEN handle_cancellation("agent", g.st, g.os, f)
        ELSE IF has_any(e) /\ a.error # no_error
        THEN result(g.st, f, "order", "date_error")
        ELSE prompt_or_ask(update_order_state(g.st, os4), update_missing_fields(os4), off)

\* _handle_human_handoff: the flag is set, the stores are left alone
handle_human_handoff(st, f) ==
    result(st, [f EXCEPT !.awaiting_human_handoff = TRUE], "handoff", "handoff")

cancel_handoff_keywords ==
    {<<"batal">>, <<"ga", "jadi">>, <<"gak", "jadi">>, <<"tidak", "jadi">>,
     <<"lanjut", "bot">>, <<"balik", "ke", "bot">>, <<"bot", "saja">>, <<"bot", "aja">>,
     <<"cancel">>, <<"nevermind">>, <<"never", "mind">>, <<"go", "back">>,
     <<"back", "to", "bot">>, <<"continue", "with", "bot">>}

\* the order data folded while the handoff is in effect: no validation
fold_entities(e, os) ==
    LET os1 == customer_fields(e, os)
        os2 == IF e.delivery_date # NoDate THEN [os1 EXCEPT !.delivery_date = e.delivery_date]
               ELSE os1
        has == Len(os.order_lines) > 0
    IN  IF ~has THEN os2
        ELSE [os2 EXCEPT !.order_lines[1].product_name =
                              IF e.product_name # NULL THEN e.product_name ELSE @,
                         !.order_lines[1].quantity =
                              IF e.quantity # NoQty THEN e.quantity ELSE @,
                         !.order_lines[1].unit = IF e.unit # NULL THEN e.unit ELSE @]

\* a handoff handler that starts the order over when the handoff is cancelled
post_handoff_resetting(st, os, f, msg, intent, e) ==
    LET user_lower == lower_strip(msg)
    IN  IF \E k \in cancel_handoff_keywords : contains(user_lower, k)
        THEN result(reset_order_state(st), [f EXCEPT !.awaiting_human_handoff = FALSE],
                    "post_handoff", "handoff_cancelled")
        ELSE IF intent = "ORDER" /\ has_any(e)
        THEN result(update_order_state(st, fold_entities(e, os)), f,
                    "post_handoff", "handoff_noted")
        ELSE result(st, f, "post_handoff", "handoff_waiting")

\* _handle_post_handoff_message
handle_post_handoff_message(st, os, f, msg, intent, e) ==
    LET user_lower == lower_strip(msg)
    IN  IF \E k \in cancel_handoff_keywords : contains(user_lower, k)
        THEN result(st, [f EXCEPT !.awaiting_human_handoff = FALSE],
                    "post_handoff", "handoff_cancelled")
        ELSE IF intent = "ORDER" /\ has_any(e)
        THEN result(update_order_state(st, fold_entities(e, os)), f,
                    "post_handoff", "handoff_noted")
        ELSE result(st, f, "post_handoff", "handoff_waiting")

\* a redirection that also drops the order in progress
redirect_resetting(b, st, f, msg) ==
    result(reset_order_state(st), f, "redirect", "redirect")

\* the redirection of the intents that are neither ORDER nor CANCEL_ORDER
redirect(b, st, f, msg) ==
    LET user_lower == lower_strip(msg)
    IN  IF b = "orches_2" /\ switch_to_english(msg)
        THEN result(st, [f EXCEPT !.current_language = "en"], "redirect", "redirect")
        ELSE IF b = "orches_2" /\ switch_to_indonesian(msg)
        THEN result(st, [f EXCEPT !.current_language = "id"], "redirect", "redirect")
        ELSE result(st, f, "redirect", "redirect")

\* an order flow without the guard of the completed order
order_flow_unguarded(b, st, os, f, intent, e, t) ==
    LET p == prefill_customer(st, os)
        a == apply_entities(b, e, p.os, t)
    IN  IF intent = "ORDER" /\ has_any(e)
        THEN (IF a.error # no_error THEN result(p.st, f, "order", "date_error")
              ELSE prompt_or_ask(update_order_state(p.st, a.os), a.os, f))
        ELSE prompt_or_ask(p.st, p.os, f)

\* the order flow of handle_message, from the completed guard to the last step
order_flow(b, st, os, f, intent, e, t) ==
    LET p == prefill_customer(st, os)
        a == apply_entities(b, e, p.os, t)
    IN  IF os.order_status = "completed"
        THEN result(st, generate_response(os, f).f, "completed",
                    generate_response(os, f).response)
        ELSE IF intent = "ORDER" /\ has_any(e)
        THEN (IF a.error # no_error THEN result(p.st, f, "order", "date_error")
              ELSE prompt_or_ask(update_order_state(p.st, a.os), a.os, f))
        ELSE prompt_or_ask(p.st, p.os, f)

\* Orchestrator.handle_message of core and of orches_2, after the read of the
\* aggregate and the classification
handle_message(b, st, f0, msg, intent, e, ch, t, fails) ==
    LET f   == IF b = "orches_2"
               THEN [f0 EXCEPT !.current_language = detected_language(@, msg)] ELSE f0
        g   == get_order_state(st)
        os  == g.os
        off == [f EXCEPT !.awaiting_order_confirmation = FALSE]
        rr  == handle_resume_response(b, g.st, f, msg)
    IN  IF f.awaiting_resume_response
        THEN [rr EXCEPT !.f.awaiting_resume_response = FALSE]
        ELSE IF b = "orches_2" /\ intent = "HUMAN_HANDOFF"
        THEN handle_human_handoff(g.st, f)
        ELSE IF b = "orches_2" /\ f.awaiting_human_handoff
        THEN handle_post_handoff_message(g.st, os, f, msg, intent, e)
        ELSE IF f.awaiting_order_confirmation /\ os.is_complete
                /\ os.order_status = "in_progress"
        THEN handle_confirmation_response(b, g.st, os, f, msg, ch, t, fails)
        ELSE IF intent = "CHIT_CHAT" THEN result(g.st, off, "chit_chat", "chit_chat")
        ELSE IF intent \notin {"ORDER", "CANCEL_ORDER"} THEN redirect(b, g.st, off, msg)
        ELSE IF intent = "CANCEL_ORDER" THEN handle_cancellation(b, g.st, os, off)
        ELSE order_flow(b, g.st, os, off, intent, e, t)

-----------------------------------------------------------------------------
(* The state machine                                                           *)

stores == [cache |-> cache, row |-> row, orders |-> orders]

flags ==
    [awaiting_resume_response |-> awaiting_resume_response,
     awaiting_order_confirmation |-> awaiting_order_confirmation,
     awaiting_human_handoff |-> awaiting_human_handoff,
     current_language |-> current_language]

\* the conversation of a phone number the orchestrator is not serving: its
\* cache entry and its row, and, for the comparison only, the flags that were
\* in force when the orchestrator last served it
no_parked == [cache |-> NoState, row |-> no_conversation, flags |-> new_flags]

\* what the last operation was given and what it answered
no_last ==
    [op |-> "none", route |-> "none", response |-> "none", msg |-> <<>>,
     raw |-> "none", intent |-> "none", entities |-> ExtractedEntities, nlu |-> FALSE,
     order_id |-> no_order_id, marked |-> NULL, save_failed |-> FALSE]

\* a conversation row left by an earlier session whose order has two lines:
\* the first is filled, the second lacks its quantity
two_line_state ==
    to_dict(update_missing_fields(
        [OrderState EXCEPT
            !.customer_name = "Budi", !.customer_company = "PT Maju",
            !.order_lines =
                <<[partnum |-> "OX-6M3", product_name |-> "OXYGEN 6M3", quantity |-> 3,
                   unit |-> "M3", delivery_date |-> FixedToday + DatesAfter],
                  [partnum |-> NULL, product_name |-> "gas xyz", quantity |-> NoQty,
                   unit |-> "tabung", delivery_date |-> FixedToday + DatesAfter]>>]))

\* a conversation row whose order was marked completed and not reset: the
\* process ended between the two commits of mark_order_completed and
\* reset_order_state
completed_row ==
    mark_order_completed(
        [cache |-> NoState,
         row |-> [exists |-> TRUE,
                  order_state |-> to_dict(update_missing_fields(
                      [OrderState EXCEPT
                          !.customer_name = "Budi", !.customer_company = "PT Maju",
                          !.order_lines =
                              <<[partnum |-> "OX-6M3", product_name |-> "OXYGEN 6M3",
                                 quantity |-> 3, unit |-> "M3",
                                 delivery_date |-> FixedToday + DatesAfter]>>])),
                  order_status |-> "in_progress"],
         orders |-> <<>>]).row

StoredRows ==
    { no_conversation,
      [exists |-> TRUE, order_state |-> two_line_state, order_status |-> "in_progress"],
      completed_row }

\* the state after construction, for the build b
InitOf(b) ==
    /\ build = b
    /\ started = FALSE
    /\ today = FixedToday
    /\ cache = NoState
    /\ row \in StoredRows
    /\ orders = <<>>
    /\ awaiting_resume_response = FALSE
    /\ awaiting_order_confirmation = FALSE
    /\ awaiting_human_handoff = FALSE
    /\ current_language = "id"
    /\ parked = no_parked
    /\ handling = <<>>
    /\ last = no_last

InitCore == InitOf("core")
InitOrches2 == InitOf("orches_2")
InitAgent == InitOf("agent")

\* the primed state of a handler's result
Becomes(r) ==
    /\ cache' = r.st.cache
    /\ row' = r.st.row
    /\ orders' = r.st.orders
    /\ awaiting_resume_response' = r.f.awaiting_resume_response
    /\ awaiting_order_confirmation' = r.f.awaiting_order_confirmation
    /\ awaiting_human_handoff' = r.f.awaiting_human_handoff
    /\ current_language' = r.f.current_language

\* start_conversation: an order in progress sets the resume flag
StartConversation ==
    /\ ~started
    /\ started' = TRUE
    /\ LET c == get_or_create_conversation(stores)
       IN  /\ Becomes([st |-> c.st,
                       f |-> [flags EXCEPT !.awaiting_resume_response =
                                               (c.order_status = "in_progress")]])
           /\ last' = [no_last EXCEPT !.op = "start_conversation",
                                      !.response = IF c.order_status = "in_progress"
                                                   THEN "resume_prompt" ELSE "welcome"]
    /\ UNCHANGED <<build, today, parked, handling>>

\* the inputs a message brings: the entities are read under ORDER only and a
\* keyword reply carries none, the extracted changes are read in the edit branch
\* only, the store can fail on a save only
EntitiesFor(msg, intent) ==
    IF intent = "ORDER" /\ msg \in OrderMessages THEN Entities(today)
    ELSE {ExtractedEntities}
ChangesFor(msg) ==
    IF awaiting_order_confirmation /\ is_edit(lower_strip(msg), build)
    THEN Changes(today) ELSE {[has_changes |-> FALSE, changes |-> ExtractedEntities]}
FailsFor(msg) ==
    IF awaiting_order_confirmation /\ is_confirm(lower_strip(msg))
    THEN BOOLEAN ELSE {FALSE}

\* the messages of a turn: a keyword reply answers a pending prompt; without
\* one the user sends order data or asks to cancel
MessagesNow ==
    IF awaiting_resume_response \/ awaiting_order_confirmation \/ awaiting_human_handoff
    THEN Messages
    ELSE OrderMessages \cup {<<"Batal">>}

Handled(result_of, op, msg, raw, intent, e, nlu) ==
    \E r \in {result_of} :
        /\ Len(r.st.orders) <= MaxOrders
        /\ Becomes(r)
        /\ last' = [op |-> op, route |-> r.route, response |-> r.response, msg |-> msg,
                    raw |-> raw, intent |-> intent, entities |-> e, nlu |-> nlu,
                    order_id |-> r.order_id, marked |-> r.marked,
                    save_failed |-> r.save_failed]
        /\ UNCHANGED <<build, started, today, parked, handling>>

\* Orchestrator.handle_message: the classifier is called on every message
HandleMessage ==
    /\ started
    /\ build \in {"core", "orches_2"}
    /\ \E msg \in MessagesNow, raw \in RawIntents :
         \E e \in EntitiesFor(msg, parse_intent(raw)), ch \in ChangesFor(msg),
            fails \in FailsFor(msg) :
              Handled(handle_message(build, stores, flags, msg, parse_intent(raw), e, ch,
                                     today, fails),
                      "handle_message", msg, raw, parse_intent(raw), e, TRUE)

\* OrderAgent.handle, called with the flag it left in _last_confirmation_flag;
\* the resume reply goes to handle_resume_response
AgentHandle ==
    /\ started
    /\ build = "agent"
    /\ \E msg \in MessagesNow, intent \in {"ORDER", "CANCEL_ORDER"} :
         \E e \in EntitiesFor(msg, intent), ch \in ChangesFor(msg), fails \in FailsFor(msg) :
              Handled(IF awaiting_resume_response
                      THEN [handle_resume_response("agent", stores, flags, msg)
                                EXCEPT !.f.awaiting_resume_response = FALSE]
                      ELSE handle(stores, flags, msg, intent, e, ch, today, fails),
                      "handle", msg, intent, intent, e, FALSE)

\* the process ends: the in-memory cache and the session flags are lost, the
\* conversation row and the orders stay
Restart ==
    /\ started
    /\ started' = FALSE
    /\ Becomes([st |-> [stores EXCEPT !.cache = NoState], f |-> new_flags])
    /\ last' = [no_last EXCEPT !.op = "restart"]
    /\ UNCHANGED <<build, today, parked, handling>>

\* the orchestrators
NextOrchestrator ==
    \/ StartConversation
    \/ HandleMessage
    \/ Restart

\* the order agent behind its caller
NextAgent ==
    \/ StartConversation
    \/ AgentHandle
    \/ Restart

SpecCore == InitCore /\ [][NextOrchestrator]_vars
SpecOrches2 == InitOrches2 /\ [][NextOrchestrator]_vars
SpecAgent == InitAgent /\ [][NextAgent]_vars

-----------------------------------------------------------------------------
(* The conversation language of orches_2: handle_message on messages in both   *)
(* languages, with and without a switch instruction.                           *)

LanguageMessages ==
    { <<"order", "oksigen">>,
      <<"english", "please">>,
      <<"saya", "pesan", "oksigen">>,
      <<"pakai", "bahasa", "indonesia">>,
      <<"saya", "pesan", "english", "please">> }

\* the entities extracted from a message of LanguageMessages
LanguageEntities(msg, intent) ==
    IF intent = "ORDER" /\ msg[Len(msg)] = "oksigen"
    THEN {ExtractedEntities, [ExtractedEntities EXCEPT !.product_name = "oksigen",
                                                      !.quantity = 3]}
    ELSE {ExtractedEntities}

LanguageMessage ==
    /\ started
    /\ build = "orches_2"
    /\ \E msg \in LanguageMessages, raw \in RawIntents :
         \E e \in LanguageEntities(msg, parse_intent(raw)) :
              Handled(handle_message(build, stores, flags, msg, parse_intent(raw), e,
                                     [has_changes |-> FALSE, changes |-> ExtractedEntities],
                                     today, FALSE),
                      "handle_message", msg, raw, parse_intent(raw), e, TRUE)

NextLanguage ==
    \/ StartConversation
    \/ LanguageMessage
    \/ Restart

SpecLanguage == InitOrches2 /\ [][NextLanguage]_vars

-----------------------------------------------------------------------------
(* One Orchestrator serving two phone numbers: start_conversation is called    *)
(* again, with the other number, on the object that holds the flags.           *)

\* the entities of the order messages of the two conversations: together they
\* complete an order
SessionEntities ==
    { [ExtractedEntities EXCEPT !.product_name = "oksigen", !.quantity = 3],
      [ExtractedEntities EXCEPT !.customer_name = "Budi", !.customer_company = "PT Maju"],
      [ExtractedEntities EXCEPT !.delivery_date = today + DatesAfter] }

\* handle_message on the conversation of current_conversation_id
SessionMessage ==
    /\ started
    /\ build = "orches_2"
    /\ \E msg \in OrderMessages \cup {<<"english", "please">>}, raw \in {"ORDER", "FALLBACK"} :
         \E e \in (IF raw = "ORDER" /\ msg \in OrderMessages THEN SessionEntities
                   ELSE {ExtractedEntities}) :
              Handled(handle_message(build, stores, flags, msg, parse_intent(raw), e,
                                     [has_changes |-> FALSE, changes |-> ExtractedEntities],
                                     today, FALSE),
                      "handle_message", msg, raw, parse_intent(raw), e, TRUE)

\* start_conversation with the other phone number: current_conversation_id
\* and awaiting_resume_response are assigned, no other flag is
StartOtherConversation ==
    /\ started
    /\ build = "orches_2"
    /\ LET c == get_or_create_conversation(
                    [cache |-> parked.cache, row |-> parked.row, orders |-> orders])
       IN  /\ Becomes([st |-> c.st,
                       f |-> [flags EXCEPT !.awaiting_resume_response =
                                               (c.order_status = "in_progress")]])
           /\ last' = [no_last EXCEPT !.op = "start_conversation",
                                      !.route = "other_phone",
                                      !.response = IF c.order_status = "in_progress"
                                                   THEN "resume_prompt" ELSE "welcome"]
    /\ parked' = [cache |-> cache, row |-> row, flags |-> flags]
    /\ UNCHANGED <<build, started, today, handling>>

InitSessions ==
    /\ InitOrches2
    /\ row = no_conversation

NextSessions ==
    \/ StartConversation
    \/ SessionMessage
    \/ StartOtherConversation

SpecSessions == InitSessions /\ [][NextSessions]_vars

-----------------------------------------------------------------------------
(* The durable store failing under handle_message: the commit of              *)
(* update_order_state raises.  No handler of handle_message or of the loop of  *)
(* main.py catches it, so the call returns no string and the process ends.     *)

\* step 9c of handle_message reaches update_order_state: no prompt is pending,
\* the order is not completed, the message is an ORDER with entities whose
\* date, if any, is valid, and no earlier order made step 9b write
reaches_update(st, f, intent, e, t) ==
    LET os == get_order_state(st).os
    IN  /\ ~f.awaiting_resume_response
        /\ ~f.awaiting_order_confirmation
        /\ ~f.awaiting_human_handoff
        /\ os.order_status # "completed"
        /\ intent = "ORDER"
        /\ has_any(e)
        /\ apply_entities("orches_2", e, os, t).error = no_error
        /\ Len(get_previous_orders(st)) = 0

\* handle_message up to the commit that raises
handle_message_commit_raises(st, f0, msg, e, t) ==
    LET f == [f0 EXCEPT !.current_language = detected_language(@, msg)]
        g == get_order_state(st)
        a == apply_entities("orches_2", e, g.os, t)
    IN  result(update_order_state_commit_raises(g.st, a.os), f, "order", "raised")

\* a message handled while the store works; after an exception the process is
\* gone and only a new one can follow
WorkingMessage ==
    /\ last.response # "raised"
    /\ SessionMessage

\* a message during whose handling the store fails
StoreDownMessage ==
    /\ started
    /\ build = "orches_2"
    /\ last.response # "raised"
    /\ \E msg \in OrderMessages, e \in SessionEntities :
         /\ reaches_update(stores, flags, "ORDER", e, today)
         /\ Handled(handle_message_commit_raises(stores, flags, msg, e, today),
                    "handle_message", msg, "ORDER", "ORDER", e, TRUE)

NextFailure ==
    \/ StartConversation
    \/ WorkingMessage
    \/ StoreDownMessage
    \/ Restart

SpecFailure == InitOrches2 /\ [][NextFailure]_vars

-----------------------------------------------------------------------------
(* The order ids: _save_order_to_database called one save at a time, over      *)
(* several days, the store failing or not.                                     *)

\* the aggregates that are saved: the two orders of StoredRows, confirmed
SavedAggregates ==
    { from_dict(completed_row.order_state), from_dict(two_line_state) }

InitIds ==
    /\ InitOf("agent")
    /\ row = no_conversation

SaveOrder ==
    /\ Len(orders) < MaxSaved
    /\ \E os \in SavedAggregates, fails \in BOOLEAN :
         LET saved == save_order_to_database(stores, os, today, fails)
         IN  /\ orders' = saved.st.orders
             /\ last' = [no_last EXCEPT !.op = "save_order_to_database",
                                        !.order_id = saved.order_id,
                                        !.save_failed = fails]
    /\ UNCHANGED <<build, started, today, cache, row, awaiting_resume_response,
                   awaiting_order_confirmation, awaiting_human_handoff, current_language,
                   parked, handling>>

\* midnight: datetime.now() of the next save gives the next date
NextDay ==
    /\ today < FixedToday + IdDays
    /\ today' = today + 1
    /\ last' = [no_last EXCEPT !.op = "next_day"]
    /\ UNCHANGED <<build, started, cache, row, orders, awaiting_resume_response,
                   awaiting_order_confirmation, awaiting_human_handoff, current_language,
                   parked, handling>>

NextIds ==
    \/ SaveOrder
    \/ NextDay

SpecIds == InitIds /\ [][NextIds]_vars

-----------------------------------------------------------------------------
(* Two calls of handle_message for one conversation running at once, as under  *)
(* a threaded server.  Each call reads the aggregate (line 99-105), applies    *)
(* its entities (9c) and calls update_order_state, which writes the cache and  *)
(* then the row.  Nothing in the source serializes the calls.                  *)

Handlers == {1, 2}

\* the entities of the two ORDER messages
ConcurrentEntities ==
    { [ExtractedEntities EXCEPT !.product_name = "oksigen", !.quantity = 3],
      [ExtractedEntities EXCEPT !.customer_name = "Budi", !.customer_company = "PT Maju"],
      [ExtractedEntities EXCEPT !.delivery_date = FixedToday + DatesAfter] }

\* the aggregate a call writes: its entities applied to what it read
computed(h) == apply_entities("orches_2", handling[h].e, handling[h].os, today).os

InitConcurrent ==
    /\ build = "orches_2"
    /\ started = TRUE
    /\ today = FixedToday
    /\ cache = get_or_create_conversation(
                   [cache |-> NoState, row |-> no_conversation, orders |-> <<>>]).st.cache
    /\ row = new_conversation
    /\ orders = <<>>
    /\ awaiting_resume_response = FALSE
    /\ awaiting_order_confirmation = FALSE
    /\ awaiting_human_handoff = FALSE
    /\ current_language = "id"
    /\ parked = no_parked
    /\ handling \in [Handlers -> {[pc |-> "received", os |-> OrderState, e |-> e] :
                                     e \in ConcurrentEntities}]
    /\ last = [no_last EXCEPT !.op = "start_conversation", !.response = "welcome"]

\* get_order_state of a call
ReadAggregate ==
    \E h \in Handlers :
        /\ handling[h].pc = "received"
        /\ LET g == get_order_state(stores)
           IN  /\ cache' = g.st.cache
               /\ handling' = [handling EXCEPT ![h].pc = "read", ![h].os = g.os]
        /\ last' = [no_last EXCEPT !.op = "get_order_state"]
        /\ UNCHANGED <<build, started, today, row, orders, awaiting_resume_response,
                       awaiting_order_confirmation, awaiting_human_handoff,
                       current_language, parked>>

\* step 9c and the first half of update_order_state: the cache entry
WriteCache ==
    \E h \in Handlers :
        /\ handling[h].pc = "read"
        /\ cache' = update_order_state(stores, computed(h)).cache
        /\ handling' = [handling EXCEPT ![h].pc = "cached"]
        /\ last' = [no_last EXCEPT !.op = "set_order_state", !.entities = handling[h].e]
        /\ UNCHANGED <<build, started, today, row, orders, awaiting_resume_response,
                       awaiting_order_confirmation, awaiting_human_handoff,
                       current_language, parked>>

\* the second half of update_order_state: the row, committed
WriteRow ==
    \E h \in Handlers :
        /\ handling[h].pc = "cached"
        /\ row' = update_order_state(stores, computed(h)).row
        /\ handling' = [handling EXCEPT ![h].pc = "done"]
        /\ last' = [no_last EXCEPT !.op = "commit", !.entities = handling[h].e]
        /\ UNCHANGED <<build, started, today, cache, orders, awaiting_resume_response,
                       awaiting_order_confirmation, awaiting_human_handoff,
                       current_language, parked>>

NextConcurrent ==
    \/ ReadAggregate
    \/ WriteCache
    \/ WriteRow

SpecConcurrent == InitConcurrent /\ [][NextConcurrent]_vars

-----------------------------------------------------------------------------
(* The handoff in effect.  _parse_llm_response turns the label HUMAN_HANDOFF   *)
(* into UNKNOWN, so handle_message never sees the intent that sets the flag;   *)
(* the handlers of the handoff are run from the state _handle_human_handoff    *)
(* leaves: a started orches_2 session with awaiting_human_handoff set.         *)

\* the conversations a handoff is requested in: one just created, one that
\* holds an order in progress
HandoffRows ==
    { [exists |-> TRUE, order_state |-> to_dict(OrderState), order_status |-> "new"],
      [exists |-> TRUE, order_state |-> two_line_state, order_status |-> "in_progress"] }

InitHandoff ==
    /\ build = "orches_2"
    /\ started = TRUE
    /\ today = FixedToday
    /\ row \in HandoffRows
    /\ cache = row.order_state
    /\ orders = <<>>
    /\ awaiting_resume_response = FALSE
    /\ awaiting_order_confirmation = FALSE
    /\ awaiting_human_handoff = handle_human_handoff(stores, new_flags).f.awaiting_human_handoff
    /\ current_language = "id"
    /\ parked = no_parked
    /\ handling = <<>>
    /\ last = [no_last EXCEPT !.op = "handle_message", !.route = "handoff",
                              !.response = "handoff", !.raw = "HUMAN_HANDOFF",
                              !.intent = "HUMAN_HANDOFF", !.nlu = TRUE]

\* a message handled while the handoff is in effect
HandoffMessage ==
    /\ awaiting_human_handoff
    /\ HandleMessage

NextHandoff ==
    \/ HandoffMessage

SpecHandoff == InitHandoff /\ [][NextHandoff]_vars

-----------------------------------------------------------------------------
(* The date validator on its own: every today of a week against the dates     *)
(* around it                                                                   *)

Todays == FirstToday..(FirstToday + TodaySpan - 1)
DatesAround(t) == (t - DateSpan)..(t + DateSpan)

InitDate ==
    /\ build = "agent"
    /\ started = FALSE
    /\ today \in Todays
    /\ cache = NoState
    /\ row = no_conversation
    /\ orders = <<>>
    /\ awaiting_resume_response = FALSE
    /\ awaiting_order_confirmation = FALSE
    /\ awaiting_human_handoff = FALSE
    /\ current_language = "id"
    /\ parked = no_parked
    /\ handling = <<>>
    /\ last = no_last

\* _validate_delivery_date on a date string, well formed or not
ValidateDate ==
    /\ \E d \in DatesAround(today) \cup {BadFormat} :
         last' = [op |-> "validate_delivery_date", date |-> d,
                  result |-> validate_delivery_date(d, today)]
    /\ UNCHANGED <<build, started, today, cache, row, orders, awaiting_resume_response,
                   awaiting_order_confirmation, awaiting_human_handoff, current_language,
                   parked, handling>>

NextDate ==
    \/ ValidateDate

SpecDate == InitDate /\ [][NextDate]_vars

-----------------------------------------------------------------------------
(* The claims                                                                  *)

\* the aggregates the cache and the conversation row hold
HeldAggregates == {d \in {cache, row.order_state} : d # NoState}

\* C1: every aggregate the stores hold, the fresh one of a new conversation and
\* the one reset_order_state writes included, has is_complete true exactly when
\* its missing_fields is empty
C1_CompleteIffNothingMissing ==
    \A d \in HeldAggregates : d.is_complete <=> (d.missing_fields = <<>>)

\* a new conversation holds the fresh aggregate: nothing filled, nothing listed
\* as missing, not complete
C1_FreshAggregateHeld ==
    /\ last.op = "start_conversation"
    /\ cache # NoState
    /\ cache.customer_name = NULL
    /\ cache.missing_fields = <<>>
    /\ ~cache.is_complete

\* C7: for every calendar date d and every today t the validator answers no
\* error exactly when d is not before t and d is not a Sunday; before t it
\* answers the past-date message with "kemarin" for one day, "kemarin lusa" for
\* two and the day count from three on; otherwise the Sunday message
C7_ValidatorMatchesReference ==
    (last.op = "validate_delivery_date" /\ last.date # BadFormat) =>
        LET d == last.date
            t == today
            r == last.result
        IN  /\ (r.error = "none") <=> (d >= t /\ d % 7 # 6)
            /\ d < t =>
                 /\ r.error = "past"
                 /\ r.date = d
                 /\ (t - d = 1) => r.time_desc = "kemarin"
                 /\ (t - d = 2) => r.time_desc = "kemarin lusa"
                 /\ (t - d >= 3) => (r.time_desc = "hari yang lalu" /\ r.days_ago = t - d)
            /\ (d >= t /\ d % 7 = 6) => r.error = "sunday"

\* a Sunday more than a week ahead was rejected, and so today would be accepted
C7_FarSundayRejected ==
    /\ last.op = "validate_delivery_date"
    /\ last.date > today + 7
    /\ last.date % 7 = 6
    /\ last.result.error = "sunday"
    /\ today % 7 # 6
    /\ validate_delivery_date(today, today) = no_error

\* the aggregate the next message reads
aggregate_read(st) == get_order_state(st).os

\* nothing of an order is held: status new, no customer, no line field
is_fresh(os) ==
    /\ os.order_status = "new"
    /\ os.customer_name = NULL
    /\ os.customer_company = NULL
    /\ \A i \in 1..Len(os.order_lines) : os.order_lines[i] = OrderLine

is_handling == last.op \in {"handle_message", "handle"}

edit_responses == {"edit_prompt", "date_error", "confirmation_prompt", "edit_unclear"}

\* C2: a reply to the confirmation prompt that contains an edit keyword is
\* handled by the edit handler and finalizes no order, even when it starts or
\* ends with a confirm keyword
C2_EditKeywordNeverFinalizes ==
    (is_handling /\ last.route = "confirmation"
        /\ \E w \in edit_words : contains(lower_strip(last.msg), w))
    => (last.response \in edit_responses /\ last.order_id = no_order_id)

\* "ubah tanggal jadi besok ya" was taken for a confirmation and the order saved
C2_EditReplyFinalized ==
    /\ is_handling
    /\ last.route = "confirmation"
    /\ last.msg = <<"ubah", "tanggal", "jadi", "besok", "ya">>
    /\ last.response = "order_confirmed"
    /\ Len(orders) > 0
    /\ orders[Len(orders)].order_id = last.order_id

\* C3: a reply to the confirmation prompt that contains a cancel keyword and no
\* edit keyword resets the aggregate to a fresh one and persists no order, even
\* when it starts or ends with a confirm keyword
C3_CancelKeywordResets ==
    (is_handling /\ last.route = "confirmation"
        /\ (\E w \in cancel_words : contains(lower_strip(last.msg), w))
        /\ ~(\E w \in edit_words : contains(lower_strip(last.msg), w)))
    => /\ last.response = "order_cancelled"
       /\ last.order_id = no_order_id
       /\ is_fresh(aggregate_read(stores))

\* "batal ya" was taken for a confirmation and the order saved
C3_CancelReplyFinalized ==
    /\ is_handling
    /\ last.route = "confirmation"
    /\ last.msg = <<"batal", "ya">>
    /\ last.response = "order_confirmed"
    /\ Len(orders) > 0
    /\ orders[Len(orders)].order_id = last.order_id

\* the order record of an aggregate under the id given
record_of(os, id) ==
    /\ id.seq >= 1
    /\ Len(orders') = Len(orders) + 1
    /\ LET o == orders'[Len(orders')]
       IN  /\ o.order_id = id
           /\ o.customer_name = os.customer_name
           /\ o.customer_company = os.customer_company
           /\ Len(o.items) = Len(os.order_lines)
           /\ \A i \in 1..Len(o.items) :
                /\ o.items[i].product_name = os.order_lines[i].product_name
                /\ o.items[i].partnum = os.order_lines[i].partnum
                /\ o.items[i].quantity = os.order_lines[i].quantity
                /\ o.items[i].unit = os.order_lines[i].unit

\* a confirm reply finalized the order in this step
finalized_now ==
    /\ last'.op \in {"handle_message", "handle"}
    /\ last'.route = "confirmation"
    /\ last'.response = "order_confirmed"

\* what finalization does besides the order record: the stored status is set to
\* completed, the reset puts it back to new, the next read is a fresh aggregate
marked_then_fresh ==
    /\ last'.marked = "completed"
    /\ row'.order_status = "new"
    /\ is_fresh(aggregate_read(stores'))

\* C4: a confirm reply on a complete aggregate persists an order record with
\* the aggregate's customer fields and lines, sets the stored status to
\* completed, and the next read is a fresh aggregate
C4_ConfirmAlwaysPersists ==
    [][finalized_now =>
         (record_of(aggregate_read(stores), last'.order_id) /\ marked_then_fresh)]_vars

\* the insert failed: the order was answered as confirmed under the placeholder
\* id, the conversation was marked completed and reset, and no record exists
C4_ConfirmedButNotStored ==
    /\ last.op = "handle"
    /\ last.route = "confirmation"
    /\ last.response = "order_confirmed"
    /\ last.order_id = TEMP(today)
    /\ orders = <<>>
    /\ last.marked = "completed"
    /\ is_fresh(aggregate_read(stores))

\* the entities of the step carry a quantity, a unit or a date and no product
without_product(e) ==
    /\ e.product_name = NULL
    /\ (e.quantity # NoQty \/ e.unit # NULL \/ e.delivery_date # NoDate)

C6_DateFailureLeavesAggregate ==
    [][(last'.op \in {"handle_message", "handle"} /\ last'.response = "date_error")
       => /\ aggregate_read(stores') = aggregate_read(stores)
          /\ row' = row]_vars

\* a message carrying only a past date was answered with the validation
\* message, and the customer of the previous order is now stored in the
\* aggregate
C6_PrefillStoredBeforeDateError ==
    /\ last.op = "handle_message"
    /\ last.route = "order"
    /\ last.response = "date_error"
    /\ last.entities = [ExtractedEntities EXCEPT !.delivery_date = today - DatesBefore]
    /\ Len(orders) > 0
    /\ row.order_state # NoState
    /\ row.order_state.customer_name = "Budi"
    /\ row.order_state.order_lines = <<OrderLine>>
    /\ row.order_status = "in_progress"

\* C8: CANCEL_ORDER on an aggregate in progress resets it to a fresh one and
\* reports the cancellation whether or not earlier orders exist; when it is not
\* in progress, earlier orders give the escalation message, none gives the
\* nothing-to-cancel message, and the aggregate is left as it was
C8_CancelInProgressResets ==
    [][(last'.op \in {"handle_message", "handle"} /\ last'.route = "cancel")
       => IF aggregate_read(stores).order_status = "in_progress"
          THEN last'.response = "cancelled" /\ is_fresh(aggregate_read(stores'))
          ELSE /\ last'.response = IF Len(get_previous_orders(stores)) > 0
                                   THEN "escalation" ELSE "nothing_to_cancel"
               /\ aggregate_read(stores') = aggregate_read(stores)
               /\ row' = row]_vars

\* the cancellation of an order in progress was answered with the escalation
\* message and the order is still there
C8_InProgressEscalated ==
    /\ last.op = "handle_message"
    /\ last.route = "cancel"
    /\ last.response = "escalation"
    /\ row.order_status = "in_progress"
    /\ aggregate_read(stores).order_status = "in_progress"

\* C9: with the confirmation flag set and neither the resume nor the handoff
\* flag, the message goes to the confirmation handler whatever its intent, and
\* the intent classifier is not called for it
C9_ConfirmationBypassesClassifier ==
    [][(awaiting_order_confirmation /\ ~awaiting_resume_response
          /\ ~awaiting_human_handoff /\ last'.op \in {"handle_message", "handle"})
       => (last'.route = "confirmation" /\ ~last'.nlu)]_vars

\* a reply to the confirmation prompt was classified before it was routed
C9_ReplyWasClassified ==
    /\ last.op = "handle_message"
    /\ last.route = "confirmation"
    /\ last.msg = <<"Ya">>
    /\ last.intent = "CANCEL_ORDER"
    /\ last.nlu

populated(os) ==
    {<<NoLine, f>> : f \in {g \in {"customer_name", "customer_company"} : os[g] # NULL}}
    \cup {p \in (1..Len(os.order_lines))
                   \X {"product_name", "quantity", "unit", "delivery_date"} :
             ~line_field_missing(os.order_lines[p[1]], p[2])}

C12_HandoffLabelSetsFlag ==
    [][(last'.op = "handle_message" /\ last'.raw = "HUMAN_HANDOFF"
          /\ ~awaiting_resume_response)
       => /\ awaiting_human_handoff'
          /\ last'.response = "handoff"
          /\ aggregate_read(stores') = aggregate_read(stores)
          /\ row' = row]_vars

\* the label HUMAN_HANDOFF reached the router as UNKNOWN: the message was
\* redirected and the handoff flag is not set
C12_HandoffLabelRedirected ==
    /\ last.op = "handle_message"
    /\ last.raw = "HUMAN_HANDOFF"
    /\ last.intent = "UNKNOWN"
    /\ last.route = "redirect"
    /\ ~awaiting_human_handoff

\* C13: a message classified CHIT_CHAT, FALLBACK or UNKNOWN while no resume,
\* handoff or confirmation flag is set leaves the aggregate in the cache and in
\* the durable store unchanged: the next message reads the same aggregate
C13_OtherIntentsLeaveAggregate ==
    [][(last'.op = "handle_message"
          /\ last'.intent \in {"CHIT_CHAT", "FALLBACK", "UNKNOWN"}
          /\ ~awaiting_resume_response /\ ~awaiting_human_handoff
          /\ ~awaiting_order_confirmation)
       => /\ aggregate_read(stores') = aggregate_read(stores)
          /\ row' = row
          /\ orders' = orders]_vars

\* a FALLBACK message was redirected in the middle of an order and the order
\* in progress is still stored
C13_RedirectedMidOrder ==
    /\ last.op = "handle_message"
    /\ last.intent = "FALLBACK"
    /\ last.route = "redirect"
    /\ row.order_status = "in_progress"
    /\ aggregate_read(stores).order_status = "in_progress"
    /\ aggregate_read(stores).customer_name = "Budi"

\* C14: an ORDER message handled while the aggregate's order_status is
\* completed leaves the aggregate in the cache and in the durable store
\* unchanged, whatever entities it carries
C14_CompletedAggregateLocked ==
    [][(last'.op \in {"handle_message", "handle"} /\ last'.intent = "ORDER"
          /\ aggregate_read(stores).order_status = "completed")
       => /\ last'.response = "completed_info"
          /\ aggregate_read(stores') = aggregate_read(stores)
          /\ row' = row
          /\ orders' = orders]_vars

\* an ORDER message naming another product and quantity was answered from the
\* completed order, which is stored as it was
C14_OrderOnCompletedAnswered ==
    /\ last.op = "handle_message"
    /\ last.intent = "ORDER"
    /\ last.entities = [ExtractedEntities EXCEPT !.product_name = "gas xyz", !.unit = "tabung"]
    /\ last.response = "completed_info"
    /\ row = completed_row
    /\ aggregate_read(stores).order_status = "completed"
    /\ aggregate_read(stores).order_lines[1].product_name = "OXYGEN 6M3"

\* the name and the catalog key a product text resolves to
resolved_name(text) ==
    IF Len(search_matches(text)) > 0 THEN search_matches(text)[1].description ELSE text
resolved_key(text) ==
    IF Len(search_matches(text)) > 0 THEN search_matches(text)[1].partnum ELSE NULL

\* no line of the aggregate holds the product, by catalog key or by name
matches_no_line(text, os) ==
    \A i \in 1..Len(os.order_lines) :
        /\ os.order_lines[i].product_name \notin {text, resolved_name(text)}
        /\ resolved_key(text) = NULL \/ os.order_lines[i].partnum # resolved_key(text)

\* the step applied the entities of an ORDER message that names a product
product_applied ==
    /\ last'.op \in {"handle_message", "handle"}
    /\ last'.intent = "ORDER"
    /\ last'.route = "order"
    /\ last'.response # "date_error"
    /\ last'.entities.product_name # NULL

\* C15: a message naming a product that matches no existing line, while line 0
\* holds a product, appends a line with the new product and leaves every
\* existing line as it was
C15_NewProductAppended ==
    [][LET before == aggregate_read(stores)
           after  == aggregate_read(stores')
           text   == last'.entities.product_name
       IN  (/\ product_applied
            /\ Len(before.order_lines) > 0
            /\ before.order_lines[1].product_name # NULL
            /\ matches_no_line(text, before))
           => /\ Len(after.order_lines) = Len(before.order_lines) + 1
              /\ \A i \in 1..Len(before.order_lines) :
                   after.order_lines[i] = before.order_lines[i]
              /\ after.order_lines[Len(after.order_lines)].product_name
                     = resolved_name(text)]_vars

\* the only line held the catalog product; the message named another product
\* and the same line now carries its name over the old catalog key
C15_FirstLineOverwritten ==
    /\ last.op = "handle"
    /\ last.route = "order"
    /\ last.entities.product_name = "gas xyz"
    /\ cache # NoState
    /\ Len(cache.order_lines) = 1
    /\ cache.order_lines[1].product_name = "gas xyz"
    /\ cache.order_lines[1].partnum = "OX-6M3"

C17_StatedUnitOverridesCatalog ==
    [][LET after == aggregate_read(stores')
           e     == last'.entities
       IN  (product_applied /\ Len(search_matches(e.product_name)) > 0)
           => \E i \in 1..Len(after.order_lines) :
                 LET line == after.order_lines[i]
                 IN  /\ line.partnum = resolved_key(e.product_name)
                     /\ e.quantity # NoQty => line.quantity = e.quantity
                     /\ e.unit # NULL => line.unit = e.unit
                     /\ line.unit = catalog_entry.uom
                          => e.unit \in {NULL, catalog_entry.uom}]_vars

\* "oksigen", 3, "tabung" was resolved to the catalog entry: the line has the
\* quantity of the message and the unit of the catalog
C17_CatalogUnitStored ==
    /\ last.op = "handle"
    /\ last.route = "order"
    /\ last.entities = [ExtractedEntities EXCEPT !.product_name = "oksigen",
                                                 !.quantity = 3, !.unit = "tabung"]
    /\ cache # NoState
    /\ cache.order_lines[1].partnum = "OX-6M3"
    /\ cache.order_lines[1].quantity = 3
    /\ cache.order_lines[1].unit = "M3"

\* C18: when the product of a message has no catalog match, the line it is
\* written to has the raw text as product_name and no partnum, whatever the
\* line held before, a catalog key of an earlier message included
C18_NoMatchClearsPartnum ==
    [][LET after == aggregate_read(stores')
           text  == last'.entities.product_name
       IN  (product_applied /\ Len(search_matches(text)) = 0)
           => \E i \in 1..Len(after.order_lines) :
                 /\ after.order_lines[i].product_name = text
                 /\ after.order_lines[i].partnum = NULL]_vars

\* the stored line names the unmatched product under the catalog key that an
\* earlier message resolved
C18_StaleCatalogKeyStored ==
    /\ last.op = "handle"
    /\ last.response # "date_error"
    /\ last.entities = [ExtractedEntities EXCEPT !.product_name = "gas xyz", !.unit = "tabung"]
    /\ row.exists
    /\ row.order_state # NoState
    /\ row.order_state.order_lines[1].product_name = "gas xyz"
    /\ row.order_state.order_lines[1].partnum = "OX-6M3"
    /\ row.order_state.order_lines[1].unit = "tabung"

\* the message carries an explicit switch instruction
switch_instruction(msg) == switch_to_english(msg) \/ switch_to_indonesian(msg)

\* C19: the conversation language changes only on a message that contains an
\* explicit switch instruction; a message detected as the other language
\* leaves it as it is
C19_LanguageLocked ==
    [][(last'.op = "handle_message" /\ current_language' # current_language)
       => switch_instruction(last'.msg)]_vars

\* an Indonesian message was handled in a conversation switched to English,
\* and the conversation is still in English
C19_IndonesianMessageKeptEnglish ==
    /\ last.op = "handle_message"
    /\ last.msg = <<"saya", "pesan", "oksigen">>
    /\ detect(last.msg) = "id"
    /\ ~switch_instruction(last.msg)
    /\ current_language = "en"

\* C20: after the first message of a session the conversation language is the
\* language detected from that message, English included, without a switch
\* instruction
C20_FirstMessageSetsLanguage ==
    [][(last.op = "start_conversation" /\ last'.op = "handle_message")
       => current_language' = detect(last'.msg)]_vars

\* an English message without a switch instruction was handled and the
\* conversation is in Indonesian
C20_EnglishMessageKeptIndonesian ==
    /\ last.op = "handle_message"
    /\ last.msg = <<"order", "oksigen">>
    /\ detect(last.msg) = "en"
    /\ ~switch_instruction(last.msg)
    /\ current_language = "id"

\* C21: the flags of a conversation depend on its own messages only: a
\* conversation started for the first time has no confirmation or handoff
\* pending and the initial language, and a conversation the orchestrator
\* returns to has the confirmation flag, the handoff flag and the language it
\* was left with
C21_FlagsPerConversation ==
    [][(last'.op = "start_conversation" /\ last'.route = "other_phone")
       => LET own == IF parked.row.exists THEN parked.flags ELSE new_flags
          IN  /\ awaiting_order_confirmation' = own.awaiting_order_confirmation
              /\ awaiting_human_handoff' = own.awaiting_human_handoff
              /\ current_language' = own.current_language]_vars

\* a conversation just created for the other phone number, with an empty
\* aggregate, starts with the confirmation pending that the first one was
\* left with
C21_NewConversationInheritsFlag ==
    /\ last.op = "start_conversation"
    /\ last.route = "other_phone"
    /\ last.response = "welcome"
    /\ is_fresh(aggregate_read(stores))
    /\ awaiting_order_confirmation
    /\ parked.flags.awaiting_order_confirmation
    /\ parked.cache # NoState
    /\ parked.cache.is_complete

C23_EveryMessageAnswered ==
    is_handling => last.response # "raised"

\* the commit of update_order_state raised under an ORDER message: no answer
\* was returned, the cache holds the product of the message and the row does
\* not
C23_CommitFailureEscaped ==
    /\ last.op = "handle_message"
    /\ last.response = "raised"
    /\ last.entities.product_name = "oksigen"
    /\ cache # NoState
    /\ cache.order_lines[1].partnum = "OX-6M3"
    /\ row.order_state = NoState

\* the records stored before position i with the date of the record at i
same_day_before(i) ==
    {j \in 1..(i - 1) : orders[j].order_id.date = orders[i].order_id.date}

\* C24: with one save at a time, every stored order has the id of its date
\* with the number of records already stored under that date plus one: the
\* ids are pairwise distinct and count 1, 2, 3, ... within a date
C24_DailySequence ==
    /\ \A i \in 1..Len(orders) :
         orders[i].order_id.seq = Cardinality(same_day_before(i)) + 1
    /\ \A i, j \in 1..Len(orders) :
         i # j => orders[i].order_id # orders[j].order_id

\* two orders stored on one day and a third on the next: the third is the
\* first of its date
C24_SecondDayStartsAtOne ==
    /\ last.op = "save_order_to_database"
    /\ Len(orders) = 3
    /\ orders[2].order_id = [date |-> FixedToday, seq |-> 2]
    /\ orders[3].order_id = [date |-> FixedToday + 1, seq |-> 1]

\* the aggregate holds what the entities e carry
applied_in(e, os) ==
    /\ e.customer_name # NULL => os.customer_name = e.customer_name
    /\ e.customer_company # NULL => os.customer_company = e.customer_company
    /\ e.product_name # NULL => os.order_lines[1].product_name = resolved_name(e.product_name)
    /\ e.quantity # NoQty => os.order_lines[1].quantity = e.quantity
    /\ e.delivery_date # NoDate =>
         e.delivery_date \in {os.delivery_date, os.order_lines[1].delivery_date}

\* C25: two messages of one conversation handled at once write last-writer-
\* wins: each call stores its own entities applied to the aggregate it read,
\* whatever was written since, so that in some interleaving a field applied by
\* one message is not in the final aggregate
C25_LastWriterWins ==
    [][/\ last'.op = "set_order_state" =>
            \E h \in Handlers :
                /\ handling[h].pc = "read" /\ handling'[h].pc = "cached"
                /\ cache' = to_dict(update_missing_fields(computed(h)))
       /\ last'.op = "commit" =>
            \E h \in Handlers :
                /\ handling[h].pc = "cached" /\ handling'[h].pc = "done"
                /\ row'.order_state = to_dict(update_missing_fields(computed(h)))]_vars

\* both calls are done; the first carried the customer, the second the
\* product; the cache and the row hold the product and no customer
C25_CustomerLost ==
    /\ \A h \in DOMAIN handling : handling[h].pc = "done"
    /\ DOMAIN handling = Handlers
    /\ handling[1].e.customer_name = "Budi"
    /\ handling[2].e.product_name = "oksigen"
    /\ applied_in(handling[2].e, aggregate_read(stores))
    /\ ~applied_in(handling[1].e, aggregate_read(stores))
    /\ row.order_state = cache
    /\ cache.customer_name = NULL

\* the earliest delivery date among the lines
earliest(lines) ==
    LET dates == {lines[i].delivery_date : i \in 1..Len(lines)} \ {NoDate}
    IN  IF dates = {} THEN NoDate
        ELSE CHOOSE d \in dates : \A other \in dates : d <= other

\* C26: the delivery date of every order record stored is the earliest
\* delivery date among the lines of the order confirmed
C26_RecordHasEarliestDate ==
    [][(is_handling' /\ Len(orders') = Len(orders) + 1)
       => orders'[Len(orders')].delivery_date
             = earliest(aggregate_read(stores).order_lines)]_vars

\* an order whose line is due tomorrow was confirmed and stored, and the
\* record has no delivery date
C26_RecordWithoutDate ==
    /\ last.op = "handle"
    /\ last.response = "order_confirmed"
    /\ ~last.save_failed
    /\ Len(orders) = 1
    /\ orders[1].order_id = last.order_id
    /\ Len(orders[1].items) = 1
    /\ orders[1].delivery_date = NoDate

\* the step ended in update_order_state: the entity path of handle_message,
\* every path of OrderAgent.handle past the confirmation
written_by_update ==
    /\ last'.route = "order"
    /\ last'.response # "date_error"
    /\ \/ last'.op = "handle"
       \/ last'.op = "handle_message" /\ last'.intent = "ORDER" /\ has_any(last'.entities)

\* no customer field and no field of any line holds a value
nothing_populated(d) ==
    /\ d.customer_name = NULL
    /\ d.customer_company = NULL
    /\ \A i \in 1..Len(d.order_lines) : d.order_lines[i] = OrderLine

all_supplied(os, e) ==
    LET held == IF Len(os.order_lines) > 0 THEN os.order_lines[1] ELSE OrderLine
    IN  /\ os.customer_name # NULL \/ e.customer_name # NULL
        /\ os.customer_company # NULL \/ e.customer_company # NULL
        /\ held.product_name # NULL \/ e.product_name # NULL
        /\ held.quantity # NoQty \/ e.quantity # NoQty
        /\ held.unit # NULL \/ e.unit # NULL
        /\ held.delivery_date # NoDate \/ e.delivery_date # NoDate

\* the message is an ORDER message that passed the date validation and names
\* no other product and no other line than the one held
supplies_last_value(os, e) ==
    /\ last'.route = "order"
    /\ last'.intent = "ORDER"
    /\ last'.response # "date_error"
    /\ os.order_status \in {"new", "in_progress"}
    /\ ~os.is_complete
    /\ Len(os.order_lines) <= 1
    /\ e.line_index = NoLine
    /\ e.product_name # NULL => (Len(os.order_lines) = 0 \/ os.order_lines[1].product_name = NULL)
    /\ all_supplied(os, e)

\* C28: once a product, a quantity, a unit, a valid delivery date, a customer
\* name and a company have all been supplied over ORDER messages, the message
\* that supplied the last of them is answered with the confirmation prompt, the
\* stored aggregate is complete and the awaiting-confirmation flag is set
C28_LastValueGetsPrompt ==
    [][(is_handling' /\ supplies_last_value(aggregate_read(stores), last'.entities))
       => /\ last'.response = "confirmation_prompt"
          /\ awaiting_order_confirmation'
          /\ cache' # NoState
          /\ cache'.is_complete]_vars

\* the delivery date came last: everything else was held, the date passed the
\* validation, and the answer asks for the delivery date again
C28_DateLastAskedAgain ==
    /\ is_handling
    /\ last.route = "order"
    /\ last.intent = "ORDER"
    /\ last.response = "ask_missing"
    /\ last.entities = [ExtractedEntities EXCEPT !.delivery_date = FixedToday + 1]
    /\ ~awaiting_order_confirmation
    /\ cache # NoState
    /\ cache.customer_name # NULL
    /\ cache.customer_company # NULL
    /\ Len(cache.order_lines) = 1
    /\ cache.order_lines[1].product_name # NULL
    /\ cache.order_lines[1].quantity # NoQty
    /\ cache.order_lines[1].unit # NULL
    /\ cache.delivery_date = FixedToday + 1
    /\ ~cache.is_complete

-----------------------------------------------------------------------------
(* OrderState as a pure value: src/src/models/order_state.py.  The blobs a   *)
(* Conversation row can hold are drawn from a bounded set, and the one       *)
(* action loads a blob and recomputes its derived fields.                    *)

\* the most lines a stored blob has
BlobLines == 2

\* the lines of a blob: each of the four fields given or not
BlobLine ==
    {[partnum |-> IF p = NULL THEN NULL ELSE "OX-6M3", product_name |-> p,
      quantity |-> q, unit |-> u, delivery_date |-> d] :
        p \in {NULL, "OXYGEN 6M3"}, q \in {NoQty, 3}, u \in {NULL, "tabung"},
        d \in {NoDate, FixedToday + 1}}

BlobLineSeqs == UNION {[1..n -> BlobLine] : n \in 0..BlobLines}

\* the blobs: what to_dict wrote for some aggregate, with any active_line_index
\* stored beside it, a top-level delivery_date or none, and missing_fields
\* either as computed or left empty
Blobs ==
    {[to_dict(IF stale THEN os ELSE update_missing_fields(os))
        EXCEPT !.active_line_index = k] :
        os \in {[OrderState EXCEPT !.customer_name = n, !.customer_company = c,
                                   !.delivery_date = d, !.order_lines = ls] :
                    n \in {NULL, "Budi"}, c \in {NULL, "PT Maju"},
                    d \in {NoDate, FixedToday + 1}, ls \in BlobLineSeqs},
        k \in 0..(BlobLines - 1), stale \in BOOLEAN}

InitBlob ==
    /\ build = "agent"
    /\ started = FALSE
    /\ today = FixedToday
    /\ cache = NoState
    /\ row \in {[exists |-> TRUE, order_state |-> d, order_status |-> d.order_status] :
                   d \in Blobs}
    /\ orders = <<>>
    /\ awaiting_resume_response = FALSE
    /\ awaiting_order_confirmation = FALSE
    /\ awaiting_human_handoff = FALSE
    /\ current_language = "id"
    /\ parked = no_parked
    /\ handling = <<>>
    /\ last = no_last

\* OrderState.from_dict on the row's blob, update_missing_fields on the
\* aggregate, to_dict of the result kept in the cache
UpdateMissingFields ==
    /\ cache = NoState
    /\ cache' = to_dict(update_missing_fields(from_dict(row.order_state)))
    /\ last' = [no_last EXCEPT !.op = "update_missing_fields"]
    /\ UNCHANGED <<build, started, today, row, orders, awaiting_resume_response,
                   awaiting_order_confirmation, awaiting_human_handoff,
                   current_language, parked, handling>>

NextBlob == UpdateMissingFields

SpecBlob == InitBlob /\ [][NextBlob]_vars

\* the line lacks one of product_name, quantity, unit, delivery_date
lacks_field(l) ==
    \/ l.product_name = NULL
    \/ l.quantity = NoQty
    \/ l.unit = NULL
    \/ l.delivery_date = NoDate

\* the smallest 0-based index of a line lacking a field, 0 when none does
first_lacking(lines) ==
    LET lacking == {i \in 1..Len(lines) : lacks_field(lines[i])}
    IN  IF lacking = {} THEN 0
        ELSE (CHOOSE i \in lacking : \A j \in lacking : i <= j) - 1

\* C29: after update_missing_fields, active_line_index is the smallest index
\* of a line lacking product_name, quantity, unit or delivery_date, and 0 when
\* no line lacks one; the customer fields do not change it, and neither does
\* the active_line_index stored in the blob that was loaded
C29_ActiveLineIsFirstLacking ==
    last.op = "update_missing_fields"
    => LET blob == row.order_state
           os == update_missing_fields(from_dict(blob))
           bare == update_missing_fields(
                       [from_dict(blob) EXCEPT !.customer_name = NULL,
                                               !.customer_company = NULL])
           known == update_missing_fields(
                       [from_dict(blob) EXCEPT !.customer_name = "Budi",
                                               !.customer_company = "PT Maju"])
       IN  /\ active_line_index(os) = first_lacking(os.order_lines)
           /\ cache.active_line_index = active_line_index(os)
           /\ active_line_index(bare) = active_line_index(os)
           /\ active_line_index(known) = active_line_index(os)
           /\ \A k \in 0..(BlobLines - 1) :
                  to_dict(update_missing_fields(
                      from_dict([blob EXCEPT !.active_line_index = k]))) = cache

\* a blob stored with active_line_index 0 and no customer was loaded: its
\* first line is filled and its second is not, and the index computed is 1
C29_SecondLineActive ==
    /\ last.op = "update_missing_fields"
    /\ row.order_state.active_line_index = 0
    /\ cache # NoState
    /\ cache.customer_name = NULL
    /\ cache.customer_company = NULL
    /\ Len(cache.order_lines) = 2
    /\ ~lacks_field(cache.order_lines[1])
    /\ lacks_field(cache.order_lines[2])
    /\ cache.active_line_index = 1

\* the aggregate get_order_state returns is complete and in progress
confirmable(st) ==
    /\ aggregate_read(st).is_complete
    /\ aggregate_read(st).order_status = "in_progress"

\* C30: between messages, the awaiting-confirmation flag is set only while the
\* stored aggregate of the current conversation is complete and in_progress
C30_FlagImpliesConfirmable ==
    awaiting_order_confirmation => confirmable(stores)

\* the confirmation handler is entered only for an aggregate that is complete
\* and in progress
confirmation_entry_guarded ==
    [][(is_handling' /\ last'.route = "confirmation") => confirmable(stores)]_vars

\* the prompt was sent for an ORDER message without entities, the flag is set,
\* and neither the cached nor the stored blob says the order is complete
C30_FlagOverIncompleteBlob ==
    /\ last.op = "handle_message"
    /\ last.response = "confirmation_prompt"
    /\ ~has_any(last.entities)
    /\ awaiting_order_confirmation
    /\ cache # NoState
    /\ ~cache.is_complete
    /\ row.order_state # NoState
    /\ ~row.order_state.is_complete
    /\ ~confirmable(stores)

\* the session is in the confirmation sub-dialogue: the flag is set, no other
\* prompt is pending, and the aggregate is complete and in progress
in_confirmation ==
    /\ awaiting_order_confirmation
    /\ ~awaiting_resume_response
    /\ ~awaiting_human_handoff
    /\ confirmable(stores)

\* C31: while awaiting confirmation, a reply that is neither a confirm reply
\* nor a cancel reply (an edit applied, rejected by the date validation or not
\* understood, or an unrecognized reply) leaves the flag set and the stored
\* aggregate complete and in_progress
C31_OnlyConfirmOrCancelEnds ==
    [][(in_confirmation /\ is_handling'
          /\ ~is_confirm(lower_strip(last'.msg)) /\ ~is_cancel(lower_strip(last'.msg)))
       => /\ last'.route = "confirmation"
          /\ awaiting_order_confirmation'
          /\ confirmable(stores')]_vars

\* an edit of the delivery date was rejected by the validation while the
\* confirmation was pending: the flag is still set and the stored aggregate is
\* still complete and in progress
C31_RejectedEditStillAwaiting ==
    /\ is_handling
    /\ last.route = "confirmation"
    /\ last.response = "date_error"
    /\ awaiting_order_confirmation
    /\ confirmable(stores)

-----------------------------------------------------------------------------
(* The confirmation sub-dialogue on its own: the prompt has been sent for a   *)
(* complete order, and the user answers with replies in which a confirm       *)
(* keyword stands alone, first, last, in the middle, or inside a word.        *)

ConfirmReplies ==
    { <<"Ya">>,
      <<"ya", "pak">>,
      <<"sudah", "ya">>,
      <<"sudah", "ya", "pak">>,
      <<"saya", "setuju">>,
      <<"setuju", "saya">>,
      <<"sudah", "pak">>,
      <<"Batal">>,
      <<"ubah", "tanggal">> }

\* the complete one-line orders a prompt was sent for
PromptedStates ==
    {to_dict(update_missing_fields(
        [OrderState EXCEPT
            !.customer_name = "Budi", !.customer_company = "PT Maju",
            !.order_status = "in_progress",
            !.order_lines = <<[partnum |-> "OX-6M3", product_name |-> "OXYGEN 6M3",
                               quantity |-> 3, unit |-> u, delivery_date |-> d]>>])) :
        u \in {"M3", "tabung"}, d \in {FixedToday + 1, FixedToday + DatesAfter}}

InitConfirm ==
    /\ build \in {"core", "orches_2", "agent"}
    /\ started = TRUE
    /\ today = FixedToday
    /\ cache \in PromptedStates
    /\ row = [exists |-> TRUE, order_state |-> cache, order_status |-> "in_progress"]
    /\ orders = <<>>
    /\ awaiting_resume_response = FALSE
    /\ awaiting_order_confirmation = TRUE
    /\ awaiting_human_handoff = FALSE
    /\ current_language = "id"
    /\ parked = no_parked
    /\ handling = <<>>
    /\ last = [no_last EXCEPT !.op = IF build = "agent" THEN "handle" ELSE "handle_message",
                              !.route = "order", !.response = "confirmation_prompt",
                              !.raw = "ORDER", !.intent = "ORDER",
                              !.nlu = (build # "agent")]

\* a reply to the confirmation prompt
ConfirmReply ==
    /\ awaiting_order_confirmation
    /\ \E msg \in ConfirmReplies, raw \in {"ORDER", "FALLBACK"} :
         \E ch \in ChangesFor(msg), fails \in FailsFor(msg) :
            IF build = "agent"
            THEN /\ raw = "ORDER"
                 /\ Handled(handle(stores, flags, msg, raw, ExtractedEntities, ch, today,
                                    fails),
                            "handle", msg, raw, raw, ExtractedEntities, FALSE)
            ELSE Handled(handle_message(build, stores, flags, msg, parse_intent(raw),
                                        ExtractedEntities, ch, today, fails),
                         "handle_message", msg, raw, parse_intent(raw), ExtractedEntities,
                         TRUE)

NextConfirm == ConfirmReply

SpecConfirm == InitConfirm /\ [][NextConfirm]_vars

\* a confirm keyword is one of the words of the reply
has_confirm_word(user_input) ==
    \E i \in 1..Len(user_input) : user_input[i] \in confirmation_words

\* C32: a reply with no edit and no cancel keyword is treated as a
\* confirmation exactly when a confirm keyword occurs in it as a whole word,
\* wherever the word stands; a keyword inside a longer word does not finalize
C32_WholeWordConfirms ==
    [][(in_confirmation /\ is_handling'
          /\ ~is_cancel(lower_strip(last'.msg))
          /\ ~is_edit(lower_strip(last'.msg), build))
       => (last'.response = "order_confirmed"
             <=> has_confirm_word(lower_strip(last'.msg)))]_vars

\* the reply had the confirm keyword between two other words: it was answered
\* as not understood and no order was stored
C32_KeywordInTheMiddleIgnored ==
    /\ is_handling
    /\ last.msg = <<"sudah", "ya", "pak">>
    /\ last.route = "confirmation"
    /\ last.response = "confirm_unclear"
    /\ awaiting_order_confirmation
    /\ orders = <<>>
    /\ confirmable(stores)

-----------------------------------------------------------------------------
(* Auto-fill on its own: the agent build, a conversation with or without an   *)
(* earlier order of another customer, and messages that give the customer in  *)
(* part, in full or not at all.                                               *)

\* the Order table when the conversation starts: empty, or one order confirmed
\* the day before for another customer
EarlierOrders ==
    { <<>>,
      save_order_to_database(
          [cache |-> NoState, row |-> no_conversation, orders |-> <<>>],
          [from_dict(completed_row.order_state) EXCEPT !.customer_name = "Andi",
                                                      !.customer_company = "CV Lama"],
          FixedToday - 1, FALSE).st.orders }

AutofillEntities ==
    { ExtractedEntities,
      [ExtractedEntities EXCEPT !.customer_name = "Budi"],
      [ExtractedEntities EXCEPT !.customer_company = "PT Maju"],
      [ExtractedEntities EXCEPT !.customer_name = "Budi", !.customer_company = "PT Maju"],
      [ExtractedEntities EXCEPT !.product_name = "oksigen", !.quantity = 3,
                                !.unit = "tabung"],
      [ExtractedEntities EXCEPT !.delivery_date = FixedToday + DatesAfter] }

InitAutofill ==
    /\ build = "agent"
    /\ started = FALSE
    /\ today = FixedToday
    /\ cache = NoState
    /\ row = no_conversation
    /\ orders \in EarlierOrders
    /\ awaiting_resume_response = FALSE
    /\ awaiting_order_confirmation = FALSE
    /\ awaiting_human_handoff = FALSE
    /\ current_language = "id"
    /\ parked = no_parked
    /\ handling = <<>>
    /\ last = no_last

\* OrderAgent.handle on an ORDER message, or on the reply to its prompt
AutofillMessage ==
    /\ started
    /\ \E msg \in (IF awaiting_order_confirmation THEN {<<"Ya">>, <<"Batal">>}
                    ELSE OrderMessages) :
         \E e \in (IF msg \in OrderMessages THEN AutofillEntities ELSE {ExtractedEntities}) :
            Handled(handle(stores, flags, msg, "ORDER", e,
                           [has_changes |-> FALSE, changes |-> ExtractedEntities],
                           today, FALSE),
                    "handle", msg, "ORDER", "ORDER", e, FALSE)

NextAutofill ==
    \/ StartConversation
    \/ AutofillMessage

SpecAutofill == InitAutofill /\ [][NextAutofill]_vars

\* the customer field after a message: the value given in the message, else the
\* value held, else the value of the previous order
customer_after(given, held, previous) ==
    IF given # NULL THEN given ELSE IF held # NULL THEN held ELSE previous

\* the confirmed records of the Order table, oldest first
confirmed_orders == SelectSeq(orders, LAMBDA o : o.status = "confirmed")

stored_aggregate == IF row.order_state = NoState THEN OrderState ELSE from_dict(row.order_state)

\* C34: after every handled message the aggregate decoded from the cache
\* entry, when there is one, equals the aggregate decoded from the row, and
\* get_order_state returns the cached aggregate when there is one and the
\* stored one otherwise
C34_CacheAgreesWithRow ==
    (is_handling /\ row.exists)
    => /\ cache # NoState => from_dict(cache) = stored_aggregate
       /\ aggregate_read(stores) = IF cache # NoState THEN from_dict(cache)
                                    ELSE stored_aggregate

\* a message was handled, the cached dict is no longer the dict of the row
\* (the read popped its top-level delivery date into line 0), and the two
\* decode to the same aggregate
C34_PoppedCacheDecodesEqual ==
    /\ is_handling
    /\ row.exists
    /\ cache # NoState
    /\ row.order_state # NoState
    /\ cache # row.order_state
    /\ row.order_state.delivery_date # NoDate
    /\ cache.delivery_date = NoDate
    /\ from_dict(cache) = stored_aggregate

-----------------------------------------------------------------------------
(* Two conversations confirming at once.  The messages of one conversation   *)
(* are handled one after the other; the calls of _save_order_to_database of  *)
(* different conversations interleave between the count query and the        *)
(* commit.  The Order table has a unique index on order_id.                  *)

\* the record _save_order_to_database adds, under the id computed at the count
order_record(os, order_id) ==
    [order_id |-> order_id, customer_name |-> os.customer_name,
     customer_company |-> os.customer_company, delivery_date |-> os.delivery_date,
     status |-> "confirmed",
     items |-> [i \in 1..Len(os.order_lines) |->
                  [partnum |-> os.order_lines[i].partnum,
                   product_name |-> os.order_lines[i].product_name,
                   quantity |-> os.order_lines[i].quantity,
                   unit |-> os.order_lines[i].unit]]]

\* a conversation with no save in progress
idle_saver == [pc |-> "idle", os |-> OrderState, order_id |-> no_order_id,
               returned |-> no_order_id]

InitSavers ==
    /\ build = "agent"
    /\ started = TRUE
    /\ today = FixedToday
    /\ cache = NoState
    /\ row = no_conversation
    /\ orders = <<>>
    /\ awaiting_resume_response = FALSE
    /\ awaiting_order_confirmation = FALSE
    /\ awaiting_human_handoff = FALSE
    /\ current_language = "id"
    /\ parked = no_parked
    /\ handling = [h \in Handlers |-> idle_saver]
    /\ last = no_last

\* the count query of a conversation's save: the id is fixed here
CountOrders(h) ==
    /\ handling[h].pc = "idle"
    /\ Len(orders) < MaxSaved
    /\ \E os \in SavedAggregates :
         LET today_count == Len(SelectSeq(orders, LAMBDA o : o.order_id.date = today))
         IN  handling' = [handling EXCEPT ![h] =
                             [@ EXCEPT !.pc = "counted", !.os = os,
                                       !.order_id = [date |-> today,
                                                     seq |-> today_count + 1]]]
    /\ last' = [no_last EXCEPT !.op = "count"]
    /\ UNCHANGED <<build, started, today, cache, row, orders, awaiting_resume_response,
                   awaiting_order_confirmation, awaiting_human_handoff, current_language,
                   parked>>

\* the commit of the save: a record whose order_id is already in the table
\* violates the unique index, the save is rolled back and the placeholder id
\* is returned
InsertOrder(h) ==
    /\ handling[h].pc = "counted"
    /\ LET taken == \E i \in 1..Len(orders) : orders[i].order_id = handling[h].order_id
       IN  /\ orders' = IF taken THEN orders
                        ELSE Append(orders, order_record(handling[h].os, handling[h].order_id))
           /\ handling' = [handling EXCEPT ![h] =
                              [@ EXCEPT !.pc = "idle",
                                        !.returned = IF taken THEN TEMP(today)
                                                     ELSE handling[h].order_id]]
           /\ last' = [no_last EXCEPT !.op = "save_order_to_database",
                                      !.order_id = IF taken THEN TEMP(today)
                                                   ELSE handling[h].order_id,
                                      !.save_failed = taken]
    /\ UNCHANGED <<build, started, today, cache, row, awaiting_resume_response,
                   awaiting_order_confirmation, awaiting_human_handoff, current_language,
                   parked>>

NextSavers ==
    \/ \E h \in Handlers : CountOrders(h)
    \/ \E h \in Handlers : InsertOrder(h)

SpecSavers == InitSavers /\ [][NextSavers]_vars

\* C35: with the messages of one conversation handled one at a time and
\* different conversations running at once, no two confirmations compute the
\* same order id, and every confirmed order is stored under its own id, never
\* answered with the TEMP placeholder
C35_ConcurrentIdsDistinct ==
    /\ \A h1, h2 \in Handlers :
          (h1 # h2 /\ handling[h1].pc = "counted" /\ handling[h2].pc = "counted")
          => handling[h1].order_id # handling[h2].order_id
    /\ \A h \in Handlers : handling[h].returned.seq # TEMP(today).seq

\* two conversations confirmed at once: both counted no order of the day, one
\* record was stored, and the other confirmation was answered with the
\* placeholder id
C35_SecondConfirmationLost ==
    /\ \E h1, h2 \in Handlers :
          /\ h1 # h2
          /\ handling[h1].pc = "idle"
          /\ handling[h2].pc = "idle"
          /\ handling[h1].returned = [date |-> FixedToday, seq |-> 1]
          /\ handling[h2].returned = TEMP(FixedToday)
          /\ handling[h2].order_id = handling[h1].order_id
    /\ Len(orders) = 1

\* the labels the router distinguishes
router_labels == {"ORDER", "CANCEL_ORDER", "CHIT_CHAT", "HUMAN_HANDOFF", "FALLBACK"}

\* C36: the intent handed to the router is the label the LLM returned whenever
\* that label is ORDER, CANCEL_ORDER, CHIT_CHAT, HUMAN_HANDOFF or FALLBACK, and
\* UNKNOWN for any other label
C36_LabelPassedThrough ==
    (last.op = "handle_message" /\ last.nlu)
    => last.intent = IF last.raw \in router_labels THEN last.raw ELSE "UNKNOWN"

\* the LLM answered HUMAN_HANDOFF: the router was handed UNKNOWN, the message
\* was not routed to the handoff and the handoff flag is not set
C36_HandoffLabelBecomesUnknown ==
    /\ last.op = "handle_message"
    /\ last.nlu
    /\ last.raw = "HUMAN_HANDOFF"
    /\ last.intent = "UNKNOWN"
    /\ last.route # "handoff"
    /\ ~awaiting_human_handoff

\* the delivery dates a stored blob holds, at order level or on a line
dates_in(d) ==
    IF d = NoState THEN {}
    ELSE ({d.delivery_date} \cup {d.order_lines[i].delivery_date : i \in 1..Len(d.order_lines)})
            \ {NoDate}

C38_ConfirmedOrderHeldSomewhere ==
    (is_handling /\ last.response = "order_confirmed")
    => \/ \E i \in 1..Len(orders) : orders[i].order_id = last.order_id
       \/ ~is_fresh(aggregate_read(stores))

\* the save of a confirmed order failed: the row was marked completed and
\* reset all the same, the aggregate is fresh and the table holds no record
C38_OrderLostAfterFailedSave ==
    /\ is_handling
    /\ last.response = "order_confirmed"
    /\ last.save_failed
    /\ last.marked = "completed"
    /\ \A i \in 1..Len(orders) : orders[i].order_id # last.order_id
    /\ is_fresh(aggregate_read(stores))
    /\ row.order_status = "new"
    /\ row.order_state = to_dict(OrderState)

\* the aggregate holds every value an order needs
all_populated(os) ==
    /\ os.customer_name # NULL
    /\ os.customer_company # NULL
    /\ Len(os.order_lines) > 0
    /\ \A i \in 1..Len(os.order_lines) : ~lacks_field(os.order_lines[i])

\* C39: every order record is stored from an aggregate that was complete at
\* that moment: customer_name, customer_company and, for every line,
\* product_name, quantity, unit and delivery date were populated
C39_RecordsFromCompleteAggregates ==
    [][(is_handling' /\ Len(orders') > Len(orders))
       => /\ all_populated(aggregate_read(stores))
          /\ aggregate_read(stores).is_complete]_vars

\* a confirm reply stored a record: it carries the customer, the company
\* and, on every item, product, quantity and unit
C39_CompleteOrderRecorded ==
    /\ is_handling
    /\ last.response = "order_confirmed"
    /\ ~last.save_failed
    /\ Len(orders) > 0
    /\ LET o == orders[Len(orders)]
       IN  /\ o.order_id = last.order_id
           /\ o.customer_name # NULL
           /\ o.customer_company # NULL
           /\ Len(o.items) > 0
           /\ \A i \in 1..Len(o.items) :
                 /\ o.items[i].product_name # NULL
                 /\ o.items[i].quantity # NoQty
                 /\ o.items[i].unit # NULL

\* C40: at the start of handling a message the aggregate get_order_state
\* returns never has order_status completed, so the completed-order guard of
\* the order handler is never taken
C40_NeverCompletedAtStart ==
    [][is_handling'
       => /\ aggregate_read(stores).order_status # "completed"
          /\ last'.route # "completed"]_vars

\* the row was left completed (marked, not reset): the next ORDER message
\* read a completed aggregate and was answered by the completed-order guard
C40_CompletedGuardTaken ==
    /\ last.op = "handle"
    /\ last.intent = "ORDER"
    /\ last.route = "completed"
    /\ last.response = "completed_info"
    /\ row.order_status = "completed"
    /\ aggregate_read(stores).order_status = "completed"

====
